---- MODULE Spec2Model ----
(***************************************************************************)
(* Model of lattice-boltzmann-rs: the geometry voxelizer                   *)
(* (src/src/geometry.rs), the construction of the lattice                  *)
(* (src/src/solver.rs, LBMSolver::new) and the solver loop                 *)
(* (LBMSolver::run) driving the accelerator (src/src/gpu.rs) and the       *)
(* snapshot writer (src/src/output.rs).                                     *)
(*                                                                         *)
(* Numbers.  Lengths are exact integers: mesh vertices and grid spacings   *)
(* are whole physical units, sample points are kept in sixths of a unit    *)
(* (the 3x3x3 samples of a cell sit at (i + (2s+1)/6) * dx).  Distances     *)
(* are compared through their squares, kept as fractions.  The Float       *)
(* fields of a lattice node (distributions, density, velocity) and of the  *)
(* configuration are exact fractions in lowest terms.                      *)
(***************************************************************************)
EXTENDS Integers, Sequences, FiniteSets, TLC

VARIABLES
    domain,            \* DomainConfig: nx, ny, nz, dx, dy, dz
    mesh,              \* stl.faces, each face as its three vertices
    face,              \* number of faces from_stl has voxelized so far
    solid_nodes,       \* Geometry.solid_nodes
    boundary_nodes,    \* Geometry.boundary_nodes
    fluid_nodes,       \* Geometry.fluid_nodes
    inlet_nodes,       \* Geometry.inlet_nodes
    outlet_nodes,      \* Geometry.outlet_nodes
    sim,               \* the rest of Config the solver reads
    pc,                \* position of the controlling thread
    result,            \* "none" while running, then "ok", "err" or "panic"
    lattice,           \* LBMSolver.lattice, the host copy of the grid
    iteration,         \* LBMSolver.iteration
    converged,         \* the local `converged` of run
    gpu,               \* the accelerator: lattice_buffer, passes executed
    queue,             \* passes and copies submitted and not yet executed
    staging,           \* the staging buffer of read_lattice_data
    collection_entries,\* VTKWriter.collection_entries
    manifest,          \* what write_collection wrote, one element per call
    caller,            \* the call site write_output returns to
    hist,              \* history: calls made and failures seen
    lattice_point,     \* a LatticePoint the operations of lattice.rs act on
    relax_tau,         \* the relaxation time tau of the run
    applied,           \* history: the operations applied to point
    buffers,           \* GPUContext.lattice_buffer and temp_buffer, by cell
    dispatch,          \* the compute pass in progress and its finished units
    trace              \* history: the grid before, the accesses of each unit

geomVars == <<domain, mesh, face, solid_nodes, boundary_nodes,
              fluid_nodes, inlet_nodes, outlet_nodes>>
runVars == <<lattice, iteration, converged, gpu, queue, staging,
             collection_entries, manifest, caller, hist>>
unitVars == <<lattice_point, relax_tau, applied, buffers, dispatch, trace>>
vars == <<domain, mesh, face, solid_nodes, boundary_nodes, fluid_nodes,
          inlet_nodes, outlet_nodes, sim, pc, result, lattice, iteration,
          converged, gpu, queue, staging, collection_entries, manifest,
          caller, hist, lattice_point, relax_tau, applied, buffers, dispatch,
          trace>>

(* Bounds of the model *)

MaxNx == 3
MaxNy == 2
MaxNz == 1
MaxFaces == 1
RunMaxNx == 3
MaxIterations == 3
MaxFrequency == 2
PipeMaxNx == 2
MaxOps == 3
MaxSteps == 2
VoxelMaxNx == 2
VoxelFaces == 2

(* Vector arithmetic (nalgebra) *)

Dot(a, b) == a[1] * b[1] + a[2] * b[2] + a[3] * b[3]
Sub(a, b) == <<a[1] - b[1], a[2] - b[2], a[3] - b[3]>>
Cross(a, b) == <<a[2] * b[3] - a[3] * b[2],
                 a[3] * b[1] - a[1] * b[3],
                 a[1] * b[2] - a[2] * b[1]>>
Scale6(a) == <<6 * a[1], 6 * a[2], 6 * a[3]>>

Min2(a, b) == IF a <= b THEN a ELSE b
Max2(a, b) == IF a >= b THEN a ELSE b
Min3(a, b, c) == Min2(Min2(a, b), c)
Max3(a, b, c) == Max2(Max2(a, b), c)

\* f32::floor and f32::ceil of a quotient of integers, b > 0
FloorDiv(a, b) == a \div b
CeilDiv(a, b) == -((-a) \div b)

\* a squared distance in sixths, as the fraction num / den (den > 0)
Frac(n, d) == [num |-> n, den |-> d]
FracMin(a, b) == IF a.num * b.den <= b.num * a.den THEN a ELSE b

(* geometry.rs: distance of a sample point to a triangle *)

\* point and the result are in sixths of a unit; a, b are mesh vertices
point_line_segment_distance(point, a, b) ==
    LET ab == Sub(b, a)
        ap == Sub(point, Scale6(a))
        ab_len_sq == Dot(ab, ab)
        apab == Dot(ap, ab)
    IN  IF ab_len_sq = 0 THEN Frac(Dot(ap, ap), 1)
        ELSE IF apab <= 0 THEN Frac(Dot(ap, ap), 1)
        ELSE IF apab >= 6 * ab_len_sq
             THEN Frac(Dot(Sub(ap, Scale6(ab)), Sub(ap, Scale6(ab))), 1)
        ELSE Frac(Dot(ap, ap) * ab_len_sq - apab * apab, ab_len_sq)

\* The barycentric test divides by dot00*dot11 - dot01*dot01.  When that is 0
\* (a zero-area triangle) inv_denom is infinite, u and v are NaN or infinite
\* and the test `u >= 0 && v >= 0 && u + v <= 1` is false: the edge branch runs.
point_triangle_distance(point, triangle) ==
    LET v0 == Sub(triangle[2], triangle[1])
        v1 == Sub(triangle[3], triangle[1])
        v2 == Sub(point, Scale6(triangle[1]))
        dot00 == Dot(v0, v0)
        dot01 == Dot(v0, v1)
        dot02 == Dot(v0, v2)
        dot11 == Dot(v1, v1)
        dot12 == Dot(v1, v2)
        denom == dot00 * dot11 - dot01 * dot01
        u6 == dot11 * dot02 - dot01 * dot12
        v6 == dot00 * dot12 - dot01 * dot02
        normal == Cross(v0, v1)
        d1 == point_line_segment_distance(point, triangle[1], triangle[2])
        d2 == point_line_segment_distance(point, triangle[2], triangle[3])
        d3 == point_line_segment_distance(point, triangle[3], triangle[1])
    IN  IF denom # 0 /\ u6 >= 0 /\ v6 >= 0 /\ u6 + v6 <= 6 * denom
        THEN Frac(Dot(v2, normal) * Dot(v2, normal), Dot(normal, normal))
        ELSE FracMin(FracMin(d1, d2), d3)

\* distance < 0.8 * min(dx, dy, dz): in sixths, squared,
\* dist6^2 < 36 * (16/25) * min^2
FracBelowThreshold(distance, m) ==
    25 * distance.num < 576 * m * m * distance.den

point_inside_triangle_volume(point, triangle, dom) ==
    FracBelowThreshold(point_triangle_distance(point, triangle),
                       Min3(dom.dx, dom.dy, dom.dz))

(* geometry.rs: voxelize_triangle *)

samples_per_axis == 3
total_samples == samples_per_axis * samples_per_axis * samples_per_axis

\* usize::MAX, 2^64 - 1, is written -1, the residue it is congruent to
\* modulo 2^64: the value of `0usize - 1` when it wraps and of `-1i32 as usize`
UsizeMax == -1

\* lines 110-115: .max(0).min(n as i32 - 1) as usize; for n = 0 it is -1 as
\* usize
Clamp(v, n) == IF n = 0 THEN UsizeMax ELSE Min2(Max2(v, 0), n - 1)

\* `i as f32` of the index usize::MAX is about 1.8e19: the samples of such a
\* cell are that many spacings from the origin
FarCell(c) == UsizeMax \in {c[1], c[2], c[3]}

\* the sample (si, sj, sk) of cell (i, j, k), in sixths of a unit
SamplePoint(c, s, dom) ==
    <<(6 * c[1] + 2 * s[1] + 1) * dom.dx,
      (6 * c[2] + 2 * s[2] + 1) * dom.dy,
      (6 * c[3] + 2 * s[3] + 1) * dom.dz>>

Samples == (0 .. samples_per_axis - 1) \X (0 .. samples_per_axis - 1)
               \X (0 .. samples_per_axis - 1)

inside_count(c, vertices, dom) ==
    Cardinality({s \in Samples :
        point_inside_triangle_volume(SamplePoint(c, s, dom), vertices, dom)})

\* the cells of the clamped bounding box of the triangle
BoundingCells(vertices, dom) ==
    LET min_x == Min3(vertices[1][1], vertices[2][1], vertices[3][1])
        max_x == Max3(vertices[1][1], vertices[2][1], vertices[3][1])
        min_y == Min3(vertices[1][2], vertices[2][2], vertices[3][2])
        max_y == Max3(vertices[1][2], vertices[2][2], vertices[3][2])
        min_z == Min3(vertices[1][3], vertices[2][3], vertices[3][3])
        max_z == Max3(vertices[1][3], vertices[2][3], vertices[3][3])
        i_min == Clamp(FloorDiv(min_x, dom.dx), dom.nx)
        i_max == Clamp(CeilDiv(max_x, dom.dx), dom.nx)
        j_min == Clamp(FloorDiv(min_y, dom.dy), dom.ny)
        j_max == Clamp(CeilDiv(max_y, dom.dy), dom.ny)
        k_min == Clamp(FloorDiv(min_z, dom.dz), dom.nz)
        k_max == Clamp(CeilDiv(max_z, dom.dz), dom.nz)
    IN  (i_min .. i_max) \X (j_min .. j_max) \X (k_min .. k_max)

NeighboursUnfiltered(c, dom) ==
    {n \in ((c[1] - 1) .. (c[1] + 1)) \X ((c[2] - 1) .. (c[2] + 1))
              \X ((c[3] - 1) .. (c[3] + 1)) : n # c}

\* the in-grid 26-neighbours of a cell
Neighbours(c, dom) ==
    {n \in ((c[1] - 1) .. (c[1] + 1)) \X ((c[2] - 1) .. (c[2] + 1))
              \X ((c[3] - 1) .. (c[3] + 1)) :
        /\ n # c
        /\ n[1] >= 0 /\ n[1] < dom.nx
        /\ n[2] >= 0 /\ n[2] < dom.ny
        /\ n[3] >= 0 /\ n[3] < dom.nz}

MarkedSolidAnySample(vertices, dom) ==
    {c \in BoundingCells(vertices, dom) :
        /\ ~FarCell(c)
        /\ inside_count(c, vertices, dom) > 0}

\* the cells voxelize_triangle inserts into solid_nodes
\* (no sample of a far cell is within the threshold of a triangle whose
\* coordinates the model's integers hold)
MarkedSolid(vertices, dom) ==
    {c \in BoundingCells(vertices, dom) :
        /\ ~FarCell(c)
        /\ inside_count(c, vertices, dom) > total_samples \div 2}

\* lines 151 and 155-171, for the cells found solid
InsertMarked(marked, dom, solid, boundary) ==
    [solid |-> solid \cup marked,
     boundary |-> boundary \cup UNION {Neighbours(c, dom) : c \in marked}]

voxelize_triangle(vertices, dom, solid, boundary) ==
    InsertMarked(MarkedSolid(vertices, dom), dom, solid, boundary)

(* geometry.rs: from_stl after the faces are voxelized (lines 35-93) *)

Grid(dom) == (0 .. dom.nx - 1) \X (0 .. dom.ny - 1) \X (0 .. dom.nz - 1)

\* lines 37-45: every cell that is not solid
FluidComplement(solid, dom) == {c \in Grid(dom) : c \notin solid}

\* the nodes (x, j, k) the two override loops visit
Plane(x, dom) == {x} \X (0 .. dom.ny - 1) \X (0 .. dom.nz - 1)

Geometry(solid, boundary, fluid, inlet, outlet) ==
    [solid_nodes |-> solid, boundary_nodes |-> boundary,
     fluid_nodes |-> fluid, inlet_nodes |-> inlet, outlet_nodes |-> outlet]

InletOverrideKeepsSolid(g, dom) ==
    [g EXCEPT !.fluid_nodes = @ \cup Plane(0, dom),
              !.inlet_nodes = @ \cup Plane(0, dom)]

\* lines 52-67: the x = 0 plane
InletOverride(g, dom) ==
    [g EXCEPT !.solid_nodes = @ \ Plane(0, dom),
              !.fluid_nodes = @ \cup Plane(0, dom),
              !.inlet_nodes = @ \cup Plane(0, dom)]

OutletOverrideKeepsSolid(g, dom) ==
    [g EXCEPT !.fluid_nodes = @ \cup Plane(dom.nx - 1, dom),
              !.outlet_nodes = @ \cup Plane(dom.nx - 1, dom)]

\* lines 70-80: the x = nx - 1 plane (for nx = 0, when the subtraction
\* wraps, the plane x = usize::MAX)
OutletOverride(g, dom) ==
    [g EXCEPT !.solid_nodes = @ \ Plane(dom.nx - 1, dom),
              !.fluid_nodes = @ \cup Plane(dom.nx - 1, dom),
              !.outlet_nodes = @ \cup Plane(dom.nx - 1, dom)]

ClassifyFluidOnce(solid, boundary, dom) ==
    LET g0 == Geometry(solid, boundary, FluidComplement(solid, dom), {}, {})
        g1 == InletOverride(g0, dom)
        g2 == OutletOverride(g1, dom)
    IN  [g2 EXCEPT !.fluid_nodes = FluidComplement(solid, dom)]

\* lines 35-92: fluid as the complement, then the two overrides
Classify(solid, boundary, dom) ==
    LET g0 == Geometry(solid, boundary, FluidComplement(solid, dom), {}, {})
    IN  OutletOverride(InletOverride(g0, dom), dom)

is_solid(g, c) == c \in g.solid_nodes
is_boundary(g, c) == c \in g.boundary_nodes
is_fluid(g, c) == c \in g.fluid_nodes
is_inlet(g, c) == c \in g.inlet_nodes
is_outlet(g, c) == c \in g.outlet_nodes

\* the Geometry the state holds
Geo == Geometry(solid_nodes, boundary_nodes, fluid_nodes, inlet_nodes,
                outlet_nodes)

(* Float (lib.rs 15).  A Float is kept as an exact fraction num / den in
   lowest terms with den > 0: arithmetic is that of the reals, without
   rounding, infinities or NaN. *)

Abs(n) == IF n < 0 THEN -n ELSE n

RECURSIVE GCD(_, _)
GCD(a, b) == IF b = 0 THEN a ELSE GCD(b, a % b)

\* (An operator that names an argument several times is given it as a value,
\* bound once by a quantifier over a one-element set, so that the argument
\* is not evaluated anew for every mention.)
Reduce(n, d) ==
    LET g == GCD(Abs(n), Abs(d))
        s == IF d < 0 THEN -1 ELSE 1
    IN  [num |-> s * (n \div g), den |-> s * (d \div g)]

Rat(n, d) == CHOOSE r \in {Reduce(x, y) : x \in {n}, y \in {d}} : TRUE

R0 == [num |-> 0, den |-> 1]
R1 == [num |-> 1, den |-> 1]
RInt(n) == [num |-> n, den |-> 1]

RNeg(a) == CHOOSE r \in {[num |-> -x.num, den |-> x.den] : x \in {a}} : TRUE

Sum2(a, b) ==
    LET l == (a.den \div GCD(a.den, b.den)) * b.den
    IN  Reduce(a.num * (l \div a.den) + b.num * (l \div b.den), l)

RAdd(a, b) == CHOOSE r \in {Sum2(x, y) : x \in {a}, y \in {b}} : TRUE

RSub(a, b) == RAdd(a, RNeg(b))

Product2(a, b) ==
    LET g1 == GCD(Abs(a.num), b.den)
        g2 == GCD(Abs(b.num), a.den)
    IN  IF a.num = 0 \/ b.num = 0 THEN R0
        ELSE [num |-> (a.num \div g1) * (b.num \div g2),
              den |-> (a.den \div g2) * (b.den \div g1)]

RMul(a, b) == CHOOSE r \in {Product2(x, y) : x \in {a}, y \in {b}} : TRUE

\* b is not zero
Inverse(b) ==
    IF b.num > 0 THEN [num |-> b.den, den |-> b.num]
    ELSE [num |-> -b.den, den |-> -b.num]

RInv(b) == CHOOSE r \in {Inverse(y) : y \in {b}} : TRUE

RDiv(a, b) == RMul(a, RInv(b))

RLess(a, b) == \E x \in {a}, y \in {b} : x.num * y.den < y.num * x.den

RMax(a, b) ==
    CHOOSE r \in {IF RLess(x, y) THEN y ELSE x : x \in {a}, y \in {b}} : TRUE

RVec(v, d) == <<Rat(v[1], d), Rat(v[2], d), Rat(v[3], d)>>

(* lattice.rs: D3Q27.  The arrays are indexed from 0 in the source and
   from 1 here: direction i is element i + 1. *)

Q == 27

Directions == 0 .. Q - 1

VELOCITIES ==
    << <<0, 0, 0>>,
       <<1, 0, 0>>, <<-1, 0, 0>>, <<0, 1, 0>>, <<0, -1, 0>>,
       <<0, 0, 1>>, <<0, 0, -1>>,
       <<1, 1, 0>>, <<1, -1, 0>>, <<-1, 1, 0>>, <<-1, -1, 0>>,
       <<1, 0, 1>>, <<1, 0, -1>>, <<-1, 0, 1>>, <<-1, 0, -1>>,
       <<0, 1, 1>>, <<0, 1, -1>>, <<0, -1, 1>>, <<0, -1, -1>>,
       <<1, 1, 1>>, <<1, 1, -1>>, <<1, -1, 1>>, <<1, -1, -1>>,
       <<-1, 1, 1>>, <<-1, 1, -1>>, <<-1, -1, 1>>, <<-1, -1, -1>> >>

WEIGHTS ==
    << Rat(8, 27),
       Rat(2, 27), Rat(2, 27), Rat(2, 27), Rat(2, 27), Rat(2, 27), Rat(2, 27),
       Rat(1, 54), Rat(1, 54), Rat(1, 54), Rat(1, 54),
       Rat(1, 54), Rat(1, 54), Rat(1, 54), Rat(1, 54),
       Rat(1, 54), Rat(1, 54), Rat(1, 54), Rat(1, 54),
       Rat(1, 216), Rat(1, 216), Rat(1, 216), Rat(1, 216),
       Rat(1, 216), Rat(1, 216), Rat(1, 216), Rat(1, 216) >>

OPPOSITE_cycle ==
    << 0,
       2, 3, 1, 5, 6, 4,
       9, 8, 7, 10, 13, 12, 11, 14, 17, 16, 15, 18,
       26, 25, 24, 23, 22, 21, 20, 19 >>

OPPOSITE ==
    << 0,
       2, 1, 4, 3, 6, 5,
       9, 8, 7, 10, 13, 12, 11, 14, 17, 16, 15, 18,
       26, 25, 24, 23, 22, 21, 20, 19 >>

CS2 == Rat(1, 3)

(* lattice.rs: LatticePoint *)

Zero3 == <<R0, R0, R0>>

\* [0.0; 27]
ZeroF == [i \in 1 .. Q |-> R0]

equilibrium_without_u2(direction, density, velocity) ==
    LET weight == WEIGHTS[direction + 1]
        c == VELOCITIES[direction + 1]
        cu == RAdd(RAdd(RMul(RInt(c[1]), velocity[1]),
                        RMul(RInt(c[2]), velocity[2])),
                   RMul(RInt(c[3]), velocity[3]))
    IN  RMul(RMul(weight, density),
             RAdd(RAdd(R1, RDiv(cu, CS2)),
                  RDiv(RMul(cu, cu), RMul(RMul(RInt(2), CS2), CS2))))

\* lines 101-115
equilibrium_distribution(direction, density, velocity) ==
    LET weight == WEIGHTS[direction + 1]
        c == VELOCITIES[direction + 1]
        cu == RAdd(RAdd(RMul(RInt(c[1]), velocity[1]),
                        RMul(RInt(c[2]), velocity[2])),
                   RMul(RInt(c[3]), velocity[3]))
        u2 == RAdd(RAdd(RMul(velocity[1], velocity[1]),
                        RMul(velocity[2], velocity[2])),
                   RMul(velocity[3], velocity[3]))
    IN  RMul(RMul(weight, density),
             RSub(RAdd(RAdd(R1, RDiv(cu, CS2)),
                       RDiv(RMul(cu, cu), RMul(RMul(RInt(2), CS2), CS2))),
                  RDiv(u2, RMul(RInt(2), CS2))))

\* lines 69-79: Default
DefaultPoint ==
    [f |-> ZeroF, density |-> R1, velocity |-> Zero3, node_type |-> 0]

\* lines 83-98
new_equilibrium_at_rest(density, velocity, node_type) ==
    CHOOSE built \in
        {[f |-> [i \in 1 .. Q |-> equilibrium_distribution(i - 1, rho, Zero3)],
          density |-> rho,
          velocity |-> u,
          node_type |-> t] : rho \in {density}, u \in {velocity},
                            t \in {node_type}} : TRUE

new_equilibrium(density, velocity, node_type) ==
    CHOOSE built \in
        {[f |-> [i \in 1 .. Q |-> equilibrium_distribution(i - 1, rho, u)],
          density |-> rho,
          velocity |-> u,
          node_type |-> t] : rho \in {density}, u \in {velocity},
                            t \in {node_type}} : TRUE

\* The sum of g[lo], ..., g[hi].  The source adds the terms from first to
\* last; without rounding the order of the additions does not change the
\* sum, and the terms are added here by halves.
RECURSIVE SumRange(_, _, _)
SumRange(g, lo, hi) ==
    IF lo > hi THEN R0
    ELSE IF lo = hi THEN g[lo]
    ELSE RAdd(SumRange(g, lo, (lo + hi) \div 2),
              SumRange(g, (lo + hi) \div 2 + 1, hi))

\* line 120: self.f.iter().sum()
SumF(f) == SumRange(f, 1, Q)

\* lines 124-129: the sum of f[i] * c[axis] over the directions
Moment(f, axis) ==
    \* the terms, bound once
    CHOOSE m \in {SumRange(terms, 1, Q) :
                    terms \in {[i \in 1 .. Q |->
                                  RMul(f[i], RInt(VELOCITIES[i][axis]))]}} :
        TRUE

FirstMoment(f) == <<Moment(f, 1), Moment(f, 2), Moment(f, 3)>>

\* line 131, `self.density > 1e-10`.  Every positive number the model holds
\* has a denominator below 2^31 and so exceeds 1e-10 (which is below 2^-33):
\* within the model the test is true exactly of the positive densities.
AboveEpsilon(density) == density.num > 0

calculate_macroscopic_without_rest(point) ==
    CHOOSE after \in
        {[p EXCEPT
            !.density = density,
            !.velocity =
                IF AboveEpsilon(density)
                THEN <<RDiv(momentum[1], density), RDiv(momentum[2], density),
                       RDiv(momentum[3], density)>>
                ELSE momentum] :
         p \in {point}, density \in {SumRange(point.f, 2, Q)},
         momentum \in {FirstMoment(point.f)}} : TRUE

\* lines 118-136: the velocity holds the first moment, and is divided by the
\* density only when the density exceeds the epsilon
calculate_macroscopic(point) ==
    CHOOSE after \in
        {[p EXCEPT
            !.density = density,
            !.velocity =
                IF AboveEpsilon(density)
                THEN <<RDiv(momentum[1], density), RDiv(momentum[2], density),
                       RDiv(momentum[3], density)>>
                ELSE momentum] :
         p \in {point}, density \in {SumF(point.f)},
         momentum \in {FirstMoment(point.f)}} : TRUE

collide_towards_rest(point, tau) ==
    CHOOSE after \in
        {[p EXCEPT !.f = [i \in 1 .. Q |->
            RAdd(p.f[i],
                 RMul(omega,
                      RSub(equilibrium_distribution(i - 1, p.density, Zero3),
                           p.f[i])))]] :
         p \in {point}, omega \in {RDiv(R1, tau)}} : TRUE

\* lines 139-146: tau is not zero
collide(point, tau) ==
    CHOOSE after \in
        {[p EXCEPT !.f = [i \in 1 .. Q |->
            RAdd(p.f[i],
                 RMul(omega,
                      RSub(equilibrium_distribution(i - 1, p.density,
                                                    p.velocity),
                           p.f[i])))]] :
         p \in {point}, omega \in {RDiv(R1, tau)}} : TRUE

(* solver.rs: LBMSolver::new, lines 35-79 *)

\* lines 41-49
NodeType(g, c) ==
    IF is_solid(g, c) THEN 1
    ELSE IF is_inlet(g, c) THEN 2
    ELSE IF is_outlet(g, c) THEN 3
    ELSE 0

\* line 57: inlet_velocity[0] * 0.1, as a division by 10
SeedDivisor == 10

\* lines 52-61
SeedVelocityUntagged(node_type, inlet_velocity) ==
    IF node_type = 1 THEN Zero3 ELSE inlet_velocity

SeedVelocity(node_type, inlet_velocity) ==
    IF node_type = 2 THEN inlet_velocity
    ELSE IF node_type = 0
         THEN <<RDiv(inlet_velocity[1], RInt(SeedDivisor)), R0, R0>>
    ELSE Zero3

\* the pushes of the loops `for k { for j { for i {` in their order
RECURSIVE RowOfX(_, _, _, _)
RowOfX(i, j, k, dom) ==
    IF i >= dom.nx THEN <<>> ELSE <<<<i, j, k>>>> \o RowOfX(i + 1, j, k, dom)

RECURSIVE RowsOfY(_, _, _)
RowsOfY(j, k, dom) ==
    IF j >= dom.ny THEN <<>>
    ELSE RowOfX(0, j, k, dom) \o RowsOfY(j + 1, k, dom)

RECURSIVE SlabsOfZ(_, _)
SlabsOfZ(k, dom) ==
    IF k >= dom.nz THEN <<>> ELSE RowsOfY(0, k, dom) \o SlabsOfZ(k + 1, dom)

CellOrderXSlowest(dom) ==
    [n \in 1 .. dom.nx * dom.ny * dom.nz |->
        <<(n - 1) \div (dom.ny * dom.nz), ((n - 1) \div dom.nz) % dom.ny,
          (n - 1) % dom.nz>>]

CellOrder(dom) == SlabsOfZ(0, dom)

\* lines 38-79: one new_equilibrium node per cell
InitialLattice(g, dom, density, inlet_velocity) ==
    CHOOSE pushed \in
        {[n \in 1 .. Len(order) |->
            new_equilibrium(density,
                            SeedVelocity(NodeType(g, order[n]), inlet_velocity),
                            NodeType(g, order[n]))] :
         order \in {CellOrder(dom)}} : TRUE

\* 0-based linear index of a cell, x fastest (output.rs 113)
LinearIndex(c, dom) == c[1] + c[2] * dom.nx + c[3] * dom.nx * dom.ny

(* solver.rs: check_convergence, lines 212-228 *)

\* powi(2) summed; the square root is taken by the comparison below
VelocityMagSq(v) ==
    RAdd(RAdd(RMul(v[1], v[1]), RMul(v[2], v[2])), RMul(v[3], v[3]))

RECURSIVE FoldMaxAllNodes(_, _, _)
FoldMaxAllNodes(nodes, n, acc) ==
    IF n > Len(nodes) THEN acc
    ELSE FoldMaxAllNodes(nodes, n + 1,
                         RMax(acc, VelocityMagSq(nodes[n].velocity)))

\* .filter(node_type == 0).map(v_mag).fold(0.0, f32::max), squared
RECURSIVE FoldMaxFluid(_, _, _)
FoldMaxFluid(nodes, n, acc) ==
    IF n > Len(nodes) THEN acc
    ELSE FoldMaxFluid(nodes, n + 1,
            IF nodes[n].node_type = 0
            THEN RMax(acc, VelocityMagSq(nodes[n].velocity))
            ELSE acc)

check_convergence_all_nodes(nodes, tolerance) ==
    /\ tolerance.num > 0
    /\ RLess(FoldMaxAllNodes(nodes, 1, R0), RMul(tolerance, tolerance))

\* max_velocity < convergence_tolerance, with max_velocity = sqrt(max of
\* squares) >= 0: true iff the tolerance is positive and exceeds it
check_convergence(nodes, tolerance) ==
    /\ tolerance.num > 0
    /\ RLess(FoldMaxFluid(nodes, 1, R0), RMul(tolerance, tolerance))

(* Inputs *)

\* a large triangle in the plane x = c, covering the whole cross-section
PlateX(c) == <<<<c, -2, -2>>, <<c, 8, -2>>, <<c, -2, 8>>>>
\* three collinear vertices, three equal vertices: zero-area triangles
LineFace == <<<<1, -1, 1>>, <<1, 2, 1>>, <<1, 5, 1>>>>
PointFace == <<<<1, 1, 1>>, <<1, 1, 1>>, <<1, 1, 1>>>>
\* a triangle wholly outside the domain, at negative coordinates
FarFace == <<<<-5, -5, -5>>, <<-5, -4, -5>>, <<-5, -5, -4>>>>
SlantedFace == <<<<1, 0, 0>>, <<2, 1, 0>>, <<1, 1, 1>>>>

Faces == {PlateX(c) : c \in 0 .. 3}
             \cup {LineFace, PointFace, FarFace, SlantedFace}

Meshes(faces, n) == UNION {[1 .. k -> faces] : k \in 0 .. n}

Spacings == {<<1, 1, 1>>, <<2, 2, 2>>}

Domain(nx, ny, nz, d) ==
    [nx |-> nx, ny |-> ny, nz |-> nz, dx |-> d[1], dy |-> d[2], dz |-> d[3]]

GeomDomains ==
    {Domain(nx, ny, nz, d) :
        nx \in 1 .. MaxNx, ny \in 1 .. MaxNy, nz \in 1 .. MaxNz, d \in Spacings}

RunDomains == {Domain(nx, 1, 1, <<1, 1, 1>>) : nx \in 1 .. RunMaxNx}
RunMeshes == Meshes({PlateX(1)}, 1)

InletVelocity == RVec(<<1, 0, 0>>, 1)
Tolerances == {R0, Rat(3, 10), Rat(4, 10)}
\* the velocities a pass may leave in a node: at rest, or of magnitude 3/10
Velocities == {Zero3, RVec(<<1, 2, 2>>, 10)}

GeomSims ==
    {[max_iterations |-> 0, output_frequency |-> 1,
      convergence_tolerance |-> Rat(3, 10), inlet_velocity |-> InletVelocity,
      density |-> R1]}

RunSims ==
    [max_iterations : 0 .. MaxIterations,
     output_frequency : 0 .. MaxFrequency,
     convergence_tolerance : Tolerances,
     inlet_velocity : {InletVelocity},
     density : {R1}]

(* State *)

NoPasses == [collision |-> 0, streaming |-> 0, boundary |-> 0]
EmptyGrid == [nodes |-> <<>>, passes |-> NoPasses]

InitWith(domains, meshes, sims) ==
    /\ domain \in domains
    /\ mesh \in meshes
    /\ sim \in sims
    /\ face = 0
    /\ solid_nodes = {}
    /\ boundary_nodes = {}
    /\ fluid_nodes = {}
    /\ inlet_nodes = {}
    /\ outlet_nodes = {}
    /\ pc = "main"
    /\ result = "none"
    /\ lattice = EmptyGrid
    /\ iteration = 0
    /\ converged = FALSE
    /\ gpu = EmptyGrid
    /\ queue = <<>>
    /\ staging = EmptyGrid
    /\ collection_entries = <<>>
    /\ manifest = <<>>
    /\ caller = "none"
    /\ hist = [step_calls |-> 0, handed |-> <<>>, checks |-> <<>>,
               failed |-> FALSE, from_stl |-> "none"]

\* how many times the unit of each cell has run, per compute pass
UnitCounts(grid) ==
    [collision |-> [n \in DOMAIN grid |-> 0],
     streaming |-> [n \in DOMAIN grid |-> 0],
     boundary |-> [n \in DOMAIN grid |-> 0]]

\* no lattice point under test, no pass dispatched by units
UnitsIdle ==
    /\ lattice_point = DefaultPoint
    /\ relax_tau = R1
    /\ applied = <<>>
    /\ buffers = [lattice_buffer |-> <<>>, temp_buffer |-> <<>>]
    /\ dispatch = [phase |-> "idle", done |-> {}]
    /\ trace = [start |-> <<>>, pre |-> <<>>, reads |-> {}, writes |-> {},
                units |-> UnitCounts(<<>>)]

Init == InitWith(RunDomains, RunMeshes, RunSims) /\ UnitsIdle
InitGeom == InitWith(GeomDomains, Meshes(Faces, MaxFaces), GeomSims)
                /\ UnitsIdle

(* solver.rs: the `?` of a fallible call *)

QuestionMarkIgnored(ok, cont) == [pc |-> cont, result |-> "none"]

QuestionMark(ok, cont) ==
    IF ok THEN [pc |-> cont, result |-> "none"]
    ELSE [pc |-> "returned", result |-> "err"]

(* main.rs 25 and config.rs 45-49: Config::from_file.  The file is read and
   deserialized; no value of the configuration is examined, so any extents
   that are unsigned integers are accepted. *)

LoadConfig ==
    /\ pc = "main"
    /\ \E outcome \in {"ok", "unreadable", "malformed"} :
        LET q == QuestionMark(outcome = "ok", "read_stl")
        IN  pc' = q.pc /\ result' = q.result
    /\ UNCHANGED geomVars
    /\ UNCHANGED runVars
    /\ UNCHANGED unitVars
    /\ UNCHANGED sim

(* geometry.rs: from_stl *)

\* lines 17-18: File::open(stl_path)?, read_stl(&mut file)?.  A file that
\* parses gives the faces it holds, none when it holds none.
ReadStl ==
    /\ pc = "read_stl"
    /\ \E outcome \in {"ok", "open_failed", "parse_failed"} :
        /\ LET q == QuestionMark(outcome = "ok", "from_stl")
           IN  pc' = q.pc /\ result' = q.result
        /\ hist' = [hist EXCEPT
              !.from_stl = IF outcome = "ok" THEN @ ELSE "err"]
    /\ UNCHANGED geomVars
    /\ UNCHANGED <<sim, lattice, iteration, converged, gpu, queue, staging,
                   collection_entries, manifest, caller>>
    /\ UNCHANGED unitVars

\* lines 24-33: one face of the mesh
VoxelizeFace ==
    /\ pc = "from_stl"
    /\ face < Len(mesh)
    /\ \E r \in {voxelize_triangle(mesh[face + 1], domain, solid_nodes,
                                   boundary_nodes)} :
           /\ solid_nodes' = r.solid
           /\ boundary_nodes' = r.boundary
    /\ face' = face + 1
    /\ UNCHANGED <<domain, mesh, fluid_nodes, inlet_nodes, outlet_nodes, sim,
                   pc, result>>
    /\ UNCHANGED runVars
    /\ UNCHANGED unitVars

\* line 72: `domain.nx - 1` is evaluated, for nx = 0, when the outlet loops
\* have a (j, k) to visit
OutletIndexUnderflows(dom) == dom.nx = 0 /\ dom.ny > 0 /\ dom.nz > 0

\* lines 35-93: the classification, and the Geometry is returned.  The
\* subtraction that underflows panics in a build with overflow checks and
\* wraps to usize::MAX in a build without.
ClassifyNodes ==
    /\ pc = "from_stl"
    /\ face = Len(mesh)
    /\ \E overflow_checks \in BOOLEAN :
        IF OutletIndexUnderflows(domain) /\ overflow_checks
        THEN /\ pc' = "returned"
             /\ result' = "panic"
             /\ hist' = [hist EXCEPT !.from_stl = "panic"]
             /\ UNCHANGED <<solid_nodes, boundary_nodes, fluid_nodes,
                            inlet_nodes, outlet_nodes>>
        ELSE /\ LET g == Classify(solid_nodes, boundary_nodes, domain)
                IN  /\ solid_nodes' = g.solid_nodes
                    /\ boundary_nodes' = g.boundary_nodes
                    /\ fluid_nodes' = g.fluid_nodes
                    /\ inlet_nodes' = g.inlet_nodes
                    /\ outlet_nodes' = g.outlet_nodes
             /\ pc' = "new"
             /\ result' = result
             /\ hist' = [hist EXCEPT !.from_stl = "ok"]
    /\ UNCHANGED <<domain, mesh, face, sim>>
    /\ UNCHANGED <<lattice, iteration, converged, gpu, queue, staging,
                   collection_entries, manifest, caller>>
    /\ UNCHANGED unitVars

\* gpu.rs 69-83 and 239-294: with no node the two buffers have size 0, and
\* binding a buffer of size 0 is a validation error of the device, which
\* wgpu reports by a panic unless the platform lets it pass
DeviceOutcomes(total_nodes) ==
    IF total_nodes = 0 THEN {"ok", "err", "panic"} ELSE {"ok", "err"}

\* solver.rs 31-97: GPUContext::new and write_geometry_file may fail
SolverNew ==
    /\ pc = "new"
    /\ \E outcome \in DeviceOutcomes(domain.nx * domain.ny * domain.nz) :
      LET ok == outcome = "ok" IN
        /\ LET q == QuestionMark(ok, "ready")
           IN  /\ pc' = q.pc
               /\ result' = IF outcome = "panic" THEN "panic" ELSE q.result
        /\ IF ok
           THEN \E nodes \in {InitialLattice(Geo, domain, sim.density,
                                              sim.inlet_velocity)} :
                    /\ lattice' = [nodes |-> nodes, passes |-> NoPasses]
                    /\ gpu' = [nodes |-> nodes, passes |-> NoPasses]
           ELSE UNCHANGED <<lattice, gpu>>
    /\ UNCHANGED geomVars
    /\ UNCHANGED <<sim, iteration, converged, queue, staging,
                   collection_entries, manifest, caller, hist>>
    /\ UNCHANGED unitVars

NextGeom ==
    LoadConfig \/ ReadStl \/ VoxelizeFace \/ ClassifyNodes \/ SolverNew

SpecGeom == InitGeom /\ [][NextGeom]_vars

(* gpu.rs: the accelerator.  The queue executes what was submitted in the
   order of submission; the shaders are not part of the host code, so a pass
   that writes lattice_buffer may leave any velocity in any node; it keeps
   the node types. *)

VelocityFields(nodes) == [DOMAIN nodes -> Velocities]

WithVelocities(nodes, field) ==
    [n \in DOMAIN nodes |-> [nodes[n] EXCEPT !.velocity = field[n]]]

PassDone(g, pass) == [g EXCEPT !.passes[pass] = @ + 1]

hostVars == <<sim, pc, result, lattice, iteration, converged,
              collection_entries, manifest, caller, hist>>

\* Collision: reads lattice_buffer, writes temp_buffer
ExecCollision ==
    /\ queue # <<>>
    /\ Head(queue) = "collision"
    /\ gpu' = PassDone(gpu, "collision")
    /\ queue' = Tail(queue)
    /\ UNCHANGED <<staging>>
    /\ UNCHANGED hostVars
    /\ UNCHANGED geomVars
    /\ UNCHANGED unitVars

\* Streaming: reads temp_buffer, writes lattice_buffer
ExecStreaming ==
    /\ queue # <<>>
    /\ Head(queue) = "streaming"
    /\ \E field \in VelocityFields(gpu.nodes) :
        gpu' = [PassDone(gpu, "streaming") EXCEPT
                   !.nodes = WithVelocities(gpu.nodes, field)]
    /\ queue' = Tail(queue)
    /\ UNCHANGED <<staging>>
    /\ UNCHANGED hostVars
    /\ UNCHANGED geomVars
    /\ UNCHANGED unitVars

\* Boundary conditions: rewrites lattice_buffer in place
ExecBoundary ==
    /\ queue # <<>>
    /\ Head(queue) = "boundary"
    /\ \E field \in VelocityFields(gpu.nodes) :
        gpu' = [PassDone(gpu, "boundary") EXCEPT
                   !.nodes = WithVelocities(gpu.nodes, field)]
    /\ queue' = Tail(queue)
    /\ UNCHANGED <<staging>>
    /\ UNCHANGED hostVars
    /\ UNCHANGED geomVars
    /\ UNCHANGED unitVars

\* gpu.rs 332: copy_buffer_to_buffer(lattice_buffer -> staging_buffer)
ExecCopy ==
    /\ queue # <<>>
    /\ Head(queue) = "copy"
    /\ staging' = gpu
    /\ queue' = Tail(queue)
    /\ UNCHANGED <<gpu>>
    /\ UNCHANGED hostVars
    /\ UNCHANGED geomVars
    /\ UNCHANGED unitVars

PollNoWait(q) == TRUE

\* device.poll(MaintainBase::Wait) returns once the queue has drained
PollWait(q) == q = <<>>

StepWithoutBoundary == <<"collision", "streaming">>

\* gpu.rs 367-406: the three compute passes of one command buffer
StepPasses == <<"collision", "streaming", "boundary">>

(* solver.rs: run, lines 100-159 *)

OutputEveryIteration(it, frequency) == TRUE

\* lines 115 and 129: iteration % output_frequency == 0
OutputDue(it, frequency) == it % frequency = 0

LoopConditionOffByOne(it, max_iterations, conv) ==
    it <= max_iterations /\ ~conv

\* line 121
LoopCondition(it, max_iterations, conv) == it < max_iterations /\ ~conv

IncrementTwice(it) == it + 2

\* line 125
Increment(it) == it + 1

TrackEntryInFront(entries, it) == <<it>> \o entries

\* output.rs 30: collection_entries.push((iteration, time, filename)); time
\* and filename are functions of the iteration
TrackEntry(entries, it) == Append(entries, it)

Failed(ok) == [hist EXCEPT !.failed = @ \/ ~ok]

\* line 104: create_dir_all(...)?
RunStart ==
    /\ pc = "ready"
    /\ \E ok \in BOOLEAN :
        /\ LET q == QuestionMark(ok, "initial_check")
           IN  pc' = q.pc /\ result' = q.result
        /\ hist' = Failed(ok)
    /\ UNCHANGED <<sim, lattice, iteration, converged, gpu, queue, staging,
                   collection_entries, manifest, caller>>
    /\ UNCHANGED geomVars
    /\ UNCHANGED unitVars

\* lines 115-117; the remainder by output_frequency = 0 panics
InitialCheck ==
    /\ pc = "initial_check"
    /\ IF sim.output_frequency = 0
       THEN pc' = "returned" /\ result' = "panic" /\ caller' = caller
       ELSE IF OutputDue(iteration, sim.output_frequency)
       THEN pc' = "read_submit" /\ result' = result /\ caller' = "initial"
       ELSE pc' = "loop" /\ result' = result /\ caller' = caller
    /\ UNCHANGED <<sim, lattice, iteration, converged, gpu, queue, staging,
                   collection_entries, manifest, hist>>
    /\ UNCHANGED geomVars
    /\ UNCHANGED unitVars

\* write_output, line 163; gpu.rs 318-338: submit the copy, map_async
ReadSubmit ==
    /\ pc = "read_submit"
    /\ queue' = Append(queue, "copy")
    /\ pc' = "read_wait"
    /\ UNCHANGED <<sim, result, lattice, iteration, converged, gpu, staging,
                   collection_entries, manifest, caller, hist>>
    /\ UNCHANGED geomVars
    /\ UNCHANGED unitVars

\* gpu.rs 342-351: poll(Wait), the map result, the mapped range
ReadWait ==
    /\ pc = "read_wait"
    /\ PollWait(queue)
    /\ \E ok \in BOOLEAN :
        /\ LET q == QuestionMark(ok, "vtk_write")
           IN  pc' = q.pc /\ result' = q.result
        /\ lattice' = IF ok THEN staging ELSE lattice
        /\ hist' = Failed(ok)
    /\ UNCHANGED <<sim, iteration, converged, gpu, queue, staging,
                   collection_entries, manifest, caller>>
    /\ UNCHANGED geomVars
    /\ UNCHANGED unitVars

\* write_output, line 205; output.rs 19-123: File::create may fail before the
\* entry is tracked, a writeln may fail after it
VtkWrite ==
    /\ pc = "vtk_write"
    /\ \E outcome \in {"ok", "create_failed", "write_failed"} :
        /\ LET q == QuestionMark(outcome = "ok",
                        IF caller = "initial" THEN "loop"
                        ELSE "check_convergence")
           IN  pc' = q.pc /\ result' = q.result
        /\ collection_entries' =
              IF outcome = "create_failed" THEN collection_entries
              ELSE TrackEntry(collection_entries, iteration)
        /\ hist' = [Failed(outcome = "ok") EXCEPT
              !.handed = Append(@, [iteration |-> iteration,
                                    passes |-> lattice.passes,
                                    nodes |-> Len(lattice.nodes),
                                    steps |-> hist.step_calls,
                                    tracked |-> outcome # "create_failed"])]
    /\ UNCHANGED <<sim, lattice, iteration, converged, gpu, queue, staging,
                   manifest, caller>>
    /\ UNCHANGED geomVars
    /\ UNCHANGED unitVars

\* line 134
CheckConvergence ==
    /\ pc = "check_convergence"
    /\ converged' = check_convergence(lattice.nodes,
                                      sim.convergence_tolerance)
    /\ hist' = [hist EXCEPT
          !.checks = Append(@, [iteration |-> iteration,
                                passes |-> lattice.passes,
                                device |-> gpu.passes])]
    /\ pc' = "loop"
    /\ UNCHANGED <<sim, result, lattice, iteration, gpu, queue, staging,
                   collection_entries, manifest, caller>>
    /\ UNCHANGED geomVars
    /\ UNCHANGED unitVars

\* line 121
LoopTest ==
    /\ pc = "loop"
    /\ pc' = IF LoopCondition(iteration, sim.max_iterations, converged)
             THEN "step_submit" ELSE "finalize"
    /\ UNCHANGED <<sim, result, lattice, iteration, converged, gpu, queue,
                   staging, collection_entries, manifest, caller, hist>>
    /\ UNCHANGED geomVars
    /\ UNCHANGED unitVars

\* line 123, gpu.rs 354-406: encode the passes, queue.submit
StepSubmit ==
    /\ pc = "step_submit"
    /\ queue' = queue \o StepPasses
    /\ pc' = "step_wait"
    /\ UNCHANGED <<sim, result, lattice, iteration, converged, gpu, staging,
                   collection_entries, manifest, caller, hist>>
    /\ UNCHANGED geomVars
    /\ UNCHANGED unitVars

\* gpu.rs 409-416: poll(Wait), Ok(()); then lines 125-129
StepWait ==
    /\ pc = "step_wait"
    /\ PollWait(queue)
    /\ iteration' = Increment(iteration)
    /\ hist' = [hist EXCEPT !.step_calls = @ + 1]
    /\ IF OutputDue(iteration', sim.output_frequency)
       THEN pc' = "read_submit" /\ caller' = "loop"
       ELSE pc' = "loop" /\ caller' = caller
    /\ UNCHANGED <<sim, result, lattice, converged, gpu, queue, staging,
                   collection_entries, manifest>>
    /\ UNCHANGED geomVars
    /\ UNCHANGED unitVars

\* lines 147-158, output.rs 226-247
Finalize ==
    /\ pc = "finalize"
    /\ \E ok \in BOOLEAN :
        /\ manifest' = IF ok THEN Append(manifest, collection_entries)
                       ELSE manifest
        /\ result' = IF ok THEN "ok" ELSE "err"
        /\ hist' = Failed(ok)
    /\ pc' = "returned"
    /\ UNCHANGED <<sim, lattice, iteration, converged, gpu, queue, staging,
                   collection_entries, caller>>
    /\ UNCHANGED geomVars
    /\ UNCHANGED unitVars

NextRun ==
    \/ RunStart \/ InitialCheck \/ ReadSubmit \/ ReadWait \/ VtkWrite
    \/ CheckConvergence \/ LoopTest \/ StepSubmit \/ StepWait \/ Finalize
    \/ ExecCollision \/ ExecStreaming \/ ExecBoundary \/ ExecCopy

Next == NextGeom \/ NextRun

Spec == Init /\ [][Next]_vars

\* run is scheduled on one thread that runs to completion, and the device
\* executes whatever its queue holds: no enabled step is postponed forever
FairSpec == Spec /\ WF_vars(Next)

(* Properties *)

\* from_stl has returned a Geometry
FromStlReturned == hist.from_stl = "ok"
LatticeBuilt == Len(lattice.nodes) > 0
NodeTypeAt(c) == lattice.nodes[LinearIndex(c, domain) + 1].node_type
AllPasses(n) == [collision |-> n, streaming |-> n, boundary |-> n]
Last(seq) == seq[Len(seq)]

\* some face of the mesh makes voxelize_triangle mark a cell of the plane
MeshMarksPlane(x) ==
    \E f \in 1 .. Len(mesh) :
        MarkedSolid(mesh[f], domain) \cap Plane(x, domain) # {}

\* C1: after from_stl returns, every cell of the x = 0 plane is in
\* fluid_nodes and inlet_nodes and not in solid_nodes, and every cell of the
\* x = nx-1 plane is in fluid_nodes and outlet_nodes and not in solid_nodes,
\* whatever the mesh marked there.
C1_BoundaryPlanesOverride ==
    FromStlReturned =>
        /\ \A c \in Plane(0, domain) :
              c \in fluid_nodes /\ c \in inlet_nodes /\ c \notin solid_nodes
        /\ \A c \in Plane(domain.nx - 1, domain) :
              c \in fluid_nodes /\ c \in outlet_nodes /\ c \notin solid_nodes

C1_Witness ==
    /\ FromStlReturned
    /\ domain.nx >= 2
    /\ MeshMarksPlane(0)
    /\ MeshMarksPlane(domain.nx - 1)

PairwiseDisjoint ==
    /\ solid_nodes \cap inlet_nodes = {}
    /\ solid_nodes \cap outlet_nodes = {}
    /\ inlet_nodes \cap outlet_nodes = {}

PlaneNodeTypes ==
    /\ \A c \in Plane(0, domain) : NodeTypeAt(c) = 2
    /\ \A c \in Plane(domain.nx - 1, domain) : NodeTypeAt(c) = 3

\* C2 as stated: for all extents nx, ny, nz >= 1, solid_nodes, inlet_nodes
\* and outlet_nodes are pairwise disjoint, and the node_type LBMSolver::new
\* stores is Inlet on the x = 0 plane and Outlet on the x = nx-1 plane.
C2_AsStated ==
    /\ FromStlReturned => PairwiseDisjoint
    /\ LatticeBuilt => PlaneNodeTypes

\* C2, amended: the same for nx >= 2; for nx = 1 the two planes are one,
\* inlet_nodes = outlet_nodes is the whole grid, no cell is solid and every
\* node_type is Inlet.
C2_OneTagPerCell ==
    IF domain.nx >= 2
    THEN /\ FromStlReturned => PairwiseDisjoint
         /\ LatticeBuilt => PlaneNodeTypes
    ELSE /\ FromStlReturned =>
              /\ inlet_nodes = Grid(domain)
              /\ outlet_nodes = Grid(domain)
              /\ solid_nodes = {}
         /\ LatticeBuilt => \A c \in Grid(domain) : NodeTypeAt(c) = 2

C2_Witness ==
    /\ LatticeBuilt
    /\ pc = "ready"
    /\ domain.nx >= 2
    /\ MeshMarksPlane(0)
    /\ MeshMarksPlane(domain.nx - 1)
    /\ \A c \in Plane(domain.nx - 1, domain) : NodeTypeAt(c) = 3

\* C3: in the Geometry from_stl returns, solid_nodes and fluid_nodes are
\* disjoint and their union is the set of all cells of the grid, also when
\* the plane override removed cells from solid_nodes.
C3_SolidFluidPartition ==
    FromStlReturned =>
        /\ solid_nodes \cap fluid_nodes = {}
        /\ solid_nodes \cup fluid_nodes = Grid(domain)

C3_Witness ==
    /\ FromStlReturned
    /\ MeshMarksPlane(0) \/ MeshMarksPlane(domain.nx - 1)
    /\ solid_nodes # {}

\* C4: between iterations of run the iteration counter equals the number of
\* pipeline invocations completed since construction (calls of step made,
\* and passes of each kind the device has executed); a step of the program
\* leaves the counter alone or adds exactly 1 to it together with exactly
\* one call of step, so it never decreases.
C4_CounterCountsSteps ==
    /\ [](pc = "loop" =>
            /\ iteration = hist.step_calls
            /\ gpu.passes = AllPasses(iteration))
    /\ [][\/ iteration' = iteration /\ hist'.step_calls = hist.step_calls
          \/ iteration' = iteration + 1
                /\ hist'.step_calls = hist.step_calls + 1]_vars

C4_Witness == pc = "loop" /\ iteration >= 2 /\ hist.step_calls >= 2

\* C5: run terminates; it makes at most max_iterations pipeline invocations,
\* the counter never exceeds max_iterations, a step is only issued while
\* iteration < max_iterations and convergence has not been detected, and a
\* run without failure returns Ok with convergence detected or
\* iteration = max_iterations.
C5_RunTerminates ==
    /\ <>(pc = "returned")
    /\ [](/\ iteration <= sim.max_iterations
          /\ hist.step_calls <= sim.max_iterations
          /\ gpu.passes.collision <= sim.max_iterations)
    /\ [](pc = "step_submit" =>
              ~converged /\ iteration < sim.max_iterations)
    /\ []((pc = "returned" /\ ~hist.failed /\ LatticeBuilt
              /\ sim.output_frequency # 0)
            => /\ result = "ok"
               /\ converged \/ iteration = sim.max_iterations)

C5_Witness ==
    /\ pc = "returned"
    /\ result = "ok"
    /\ converged
    /\ iteration < sim.max_iterations

\* C6: check_convergence is called only when the counter is a positive
\* multiple of output_frequency, a run that returns Ok before
\* max_iterations stopped at such an iteration, and with
\* max_iterations < output_frequency a run that returns Ok made exactly
\* max_iterations steps and never evaluated convergence.
C6_ConvergenceOnlyAtOutput ==
    /\ \A n \in 1 .. Len(hist.checks) :
          /\ hist.checks[n].iteration > 0
          /\ hist.checks[n].iteration % sim.output_frequency = 0
    /\ pc = "check_convergence" =>
          iteration > 0 /\ iteration % sim.output_frequency = 0
    /\ (result = "ok" /\ iteration < sim.max_iterations) =>
          /\ converged
          /\ iteration > 0
          /\ iteration % sim.output_frequency = 0
    /\ (result = "ok" /\ sim.max_iterations < sim.output_frequency) =>
          /\ hist.step_calls = sim.max_iterations
          /\ gpu.passes = AllPasses(sim.max_iterations)
          /\ hist.checks = <<>>

\* the velocities on the device would pass the test, had it been made
C6_Witness ==
    /\ result = "ok"
    /\ sim.max_iterations < sim.output_frequency
    /\ sim.max_iterations >= 1
    /\ \E n \in DOMAIN gpu.nodes : gpu.nodes[n].node_type = 0
    /\ \A n \in DOMAIN gpu.nodes :
          gpu.nodes[n].node_type = 0 => gpu.nodes[n].velocity = Zero3
    /\ sim.convergence_tolerance.num > 0
    /\ ~converged

\* the magnitude of v is strictly below the tolerance
MagnitudeBelow(v, tolerance) ==
    /\ tolerance.num > 0
    /\ RLess(VelocityMagSq(v), RMul(tolerance, tolerance))

\* the maximum over the Fluid nodes, 0 when there is none, is below
MaxFluidMagnitudeBelow(nodes, tolerance) ==
    /\ tolerance.num > 0
    /\ \A n \in DOMAIN nodes :
          nodes[n].node_type = 0
              => MagnitudeBelow(nodes[n].velocity, tolerance)

JustChecked ==
    /\ pc = "loop"
    /\ hist.checks # <<>>
    /\ Last(hist.checks).iteration = iteration

\* C7: check_convergence reports convergence exactly when the maximum
\* velocity magnitude over the node_type 0 nodes of the most recent readback
\* is strictly below convergence_tolerance; Solid, Inlet and Outlet nodes
\* have no influence.
C7_ConvergenceCriterion ==
    JustChecked =>
        (converged <=>
            MaxFluidMagnitudeBelow(lattice.nodes, sim.convergence_tolerance))

C7_Witness ==
    /\ JustChecked
    /\ converged
    /\ \E n \in DOMAIN lattice.nodes : lattice.nodes[n].node_type = 0
    /\ \E n \in DOMAIN lattice.nodes :
          /\ lattice.nodes[n].node_type # 0
          /\ ~MagnitudeBelow(lattice.nodes[n].velocity,
                             sim.convergence_tolerance)

\* C8: a snapshot handed to the writer with iteration index n holds the
\* grid after exactly n executions of each of the three passes, and the
\* convergence check at iteration n reads that same snapshot, the device
\* having executed nothing since.
C8_SnapshotAfterNSteps ==
    /\ \A n \in 1 .. Len(hist.handed) :
          /\ hist.handed[n].passes = AllPasses(hist.handed[n].iteration)
          /\ hist.handed[n].steps = hist.handed[n].iteration
    /\ \A n \in 1 .. Len(hist.checks) :
          /\ hist.checks[n].passes = AllPasses(hist.checks[n].iteration)
          /\ hist.checks[n].device = hist.checks[n].passes
    /\ pc = "check_convergence" =>
          /\ hist.handed # <<>>
          /\ Last(hist.handed).iteration = iteration
          /\ Last(hist.handed).passes = lattice.passes

C8_Witness ==
    /\ Len(hist.handed) >= 2
    /\ Last(hist.handed).iteration >= 2
    /\ hist.checks # <<>>
    /\ Last(hist.checks).iteration >= 2

\* C9: when run returns Ok, write_collection has written the manifest
\* exactly once, after every snapshot, and the manifest lists the iterations
\* 0, f, 2f, ... up to the final iteration, each once, in increasing order.
C9_ManifestListsSnapshots ==
    /\ Len(manifest) <= 1
    /\ manifest # <<>> => pc = "returned"
    /\ result = "ok" =>
          /\ Len(manifest) = 1
          /\ Len(manifest[1]) = iteration \div sim.output_frequency + 1
          /\ \A n \in 1 .. Len(manifest[1]) :
                manifest[1][n] = (n - 1) * sim.output_frequency
          /\ Len(hist.handed) = Len(manifest[1])
          /\ \A n \in 1 .. Len(hist.handed) :
                hist.handed[n].iteration = manifest[1][n]

C9_Witness ==
    /\ result = "ok"
    /\ Len(manifest) = 1
    /\ Len(manifest[1]) >= 3
    /\ sim.output_frequency = 1

\* C10: once an operation of run has failed, run has returned the error:
\* nothing more happens (no step, no snapshot, no retry) and the manifest is
\* not written.
C10_FailureAborts ==
    hist.failed =>
        /\ pc = "returned"
        /\ result = "err"
        /\ manifest = <<>>
        /\ queue = <<>>
        /\ ~ENABLED Next

C10_Witness ==
    /\ hist.failed
    /\ hist.step_calls >= 1
    /\ Len(hist.handed) >= 2
    /\ ~Last(hist.handed).tracked
    /\ iteration < sim.max_iterations

\* no cell has been put into any set of the Geometry
NoClassification ==
    solid_nodes \cup boundary_nodes \cup fluid_nodes \cup inlet_nodes
        \cup outlet_nodes = {}

\* C11, as stated: from_stl fails with an error and produces no
\* classification when the mesh file cannot be opened or parsed, and also
\* when the parsed mesh contains no triangles.  Refuted by a file that parses
\* to a mesh without faces: from_stl returns a Geometry that classifies
\* every cell.
C11_AsStated ==
    /\ hist.from_stl = "err" => result = "err" /\ NoClassification
    /\ Len(mesh) = 0 => hist.from_stl # "ok" /\ NoClassification

(* The configuration as the file gives it: the extents are unsigned
   integers, zero included (config.rs 16-24). *)

ConfigDomains ==
    {Domain(nx, ny, nz, <<1, 1, 1>>) :
        nx \in 0 .. RunMaxNx, ny \in 0 .. 1, nz \in 0 .. 1}

ConfigSims ==
    [max_iterations : 0 .. 1,
     output_frequency : {1},
     convergence_tolerance : {Rat(3, 10)},
     inlet_velocity : {InletVelocity},
     density : {R1}]

InitConfig == InitWith(ConfigDomains, RunMeshes, ConfigSims) /\ UnitsIdle

SpecConfig == InitConfig /\ [][Next]_vars

ZeroExtent(dom) == dom.nx = 0 \/ dom.ny = 0 \/ dom.nz = 0

\* C12, as stated: a configuration with an extent equal to 0 is rejected with
\* an error before any geometry classification, grid construction or
\* pipeline step; no code path computes nx - 1 or builds a grid from it.
\* Refuted by nx = 0, ny = nz = 1: the configuration is accepted, from_stl
\* reaches the outlet loop and evaluates nx - 1.
C12_AsStated ==
    ZeroExtent(domain) =>
        /\ hist.from_stl \notin {"ok", "panic"}
        /\ pc \in {"main", "read_stl", "from_stl", "returned"}
        /\ hist.step_calls = 0 /\ queue = <<>>
        /\ pc = "returned" => result = "err"

\* a step of the host thread: main, from_stl, LBMSolver::new or run
HostStep ==
    \/ NextGeom
    \/ RunStart \/ InitialCheck \/ ReadSubmit \/ ReadWait \/ VtkWrite
    \/ CheckConvergence \/ LoopTest \/ StepSubmit \/ StepWait \/ Finalize

\* the host thread has not returned and cannot take a step: it waits
HostBlocked == pc # "returned" /\ ~ENABLED HostStep

\* some pass that a step submitted has not been executed
StepPassPending == \E n \in 1 .. Len(queue) : queue[n] # "copy"

\* C14, as stated: step returns to the host without waiting for the phases
\* it submitted, and the readback is the only host operation that blocks.
\* Refuted by any step: after queue.submit the host waits inside step until
\* the three passes have been executed.
C14_AsStated == HostBlocked => pc = "read_wait"

\* C14, amended: the host blocks in exactly two operations, the wait that
\* ends GPUContext::step and the wait of read_lattice_data; step returns only
\* when the passes it submitted have completed, so outside these two waits
\* and the submission that precedes them nothing is pending on the device.
C14_StepAndReadbackBlock ==
    /\ HostBlocked => pc \in {"read_wait", "step_wait"}
    /\ pc # "step_wait" => ~StepPassPending
    /\ pc \notin {"read_wait", "step_wait"} => queue = <<>>

\* the host is held inside step while passes of that step are pending
C14_Witness ==
    /\ pc = "step_wait"
    /\ HostBlocked
    /\ StepPassPending
    /\ hist.step_calls > 0

(* lattice.rs on its own: one LatticePoint, built by new_equilibrium or given
   its 27 distributions (the fields are public), then relaxed and measured.
   `applied` keeps each operation with the point it produced. *)

Densities == {R1, Rat(3, 2), Rat(1, 2), R0, RInt(-1)}

PointVelocities ==
    {Zero3, RVec(<<1, 0, 0>>, 10), RVec(<<1, -2, 3>>, 10),
     RVec(<<-1, 1, 0>>, 5)}

NodeTypes == 0 .. 3

\* tau > 0; collide divides by tau
Taus == {Rat(3, 5), R1, RInt(2)}

\* all distributions 0 but that of one direction
OneDirection(direction, value) ==
    [i \in 1 .. Q |-> IF i = direction + 1 THEN value ELSE R0]

\* two populations that cancel in the sum and add in the first moment
Cancelling ==
    [i \in 1 .. Q |-> IF i = 2 THEN R1 ELSE IF i = 3 THEN RInt(-1) ELSE R0]

Distributions ==
    {OneDirection(d, v) : d \in Directions, v \in {R1, Rat(1, 2)}}
        \cup {ZeroF, Cancelling, OneDirection(1, RInt(-1))}

InitLattice ==
    /\ InitWith({Domain(1, 1, 1, <<1, 1, 1>>)}, {<<>>}, GeomSims)
    /\ lattice_point = DefaultPoint
    /\ relax_tau \in Taus
    /\ applied = <<>>
    /\ buffers = [lattice_buffer |-> <<>>, temp_buffer |-> <<>>]
    /\ dispatch = [phase |-> "idle", done |-> {}]
    /\ trace = [start |-> <<>>, pre |-> <<>>, reads |-> {}, writes |-> {},
                units |-> UnitCounts(<<>>)]

Applied(op, after) == Append(applied, [op |-> op, point |-> after])

NewEquilibrium ==
    /\ applied = <<>>
    /\ \E density \in Densities, velocity \in PointVelocities,
          node_type \in NodeTypes :
        \E after \in {new_equilibrium(density, velocity, node_type)} :
            /\ lattice_point' = after
            /\ applied' = Applied("new_equilibrium", after)
    /\ UNCHANGED <<relax_tau, buffers, dispatch, trace>>
    /\ UNCHANGED <<sim, pc, result>>
    /\ UNCHANGED geomVars
    /\ UNCHANGED runVars

SetDistributions ==
    /\ applied = <<>>
    /\ \E f \in Distributions :
        \E after \in {[lattice_point EXCEPT !.f = f]} :
            /\ lattice_point' = after
            /\ applied' = Applied("set_f", after)
    /\ UNCHANGED <<relax_tau, buffers, dispatch, trace>>
    /\ UNCHANGED <<sim, pc, result>>
    /\ UNCHANGED geomVars
    /\ UNCHANGED runVars

CalculateMacroscopic ==
    /\ applied # <<>>
    /\ Len(applied) < MaxOps
    /\ \E after \in {calculate_macroscopic(lattice_point)} :
        /\ lattice_point' = after
        /\ applied' = Applied("calculate_macroscopic", after)
    /\ UNCHANGED <<relax_tau, buffers, dispatch, trace>>
    /\ UNCHANGED <<sim, pc, result>>
    /\ UNCHANGED geomVars
    /\ UNCHANGED runVars

Collide ==
    /\ applied # <<>>
    /\ Len(applied) < MaxOps
    /\ \E after \in {collide(lattice_point, relax_tau)} :
        /\ lattice_point' = after
        /\ applied' = Applied("collide", after)
    /\ UNCHANGED <<relax_tau, buffers, dispatch, trace>>
    /\ UNCHANGED <<sim, pc, result>>
    /\ UNCHANGED geomVars
    /\ UNCHANGED runVars

NextLattice ==
    NewEquilibrium \/ SetDistributions \/ CalculateMacroscopic \/ Collide

SpecLattice == InitLattice /\ [][NextLattice]_vars

Negated(c) == <<-c[1], -c[2], -c[3]>>

\* the directions in which the point holds a population
Populated(point) == {i \in Directions : point.f[i + 1] # R0}

\* C15, as stated: for every direction i, VELOCITIES[OPPOSITE[i]] is the
\* component-wise negation of VELOCITIES[i], and OPPOSITE[i] differs from i
\* for every i other than the rest direction 0; looked up for the directions
\* a point populates.  Refuted by a population in direction 7, (1, 1, 0):
\* OPPOSITE[7] = 9, and VELOCITIES[9] = (-1, 1, 0).
C15_AsStated ==
    \A i \in Populated(lattice_point) :
        /\ VELOCITIES[OPPOSITE[i + 1] + 1] = Negated(VELOCITIES[i + 1])
        /\ i # 0 => OPPOSITE[i + 1] # i

\* the 27 equilibrium distributions of a density and a velocity
Equilibrium(density, velocity) ==
    [i \in 1 .. Q |-> equilibrium_distribution(i - 1, density, velocity)]

\* the sum over the directions of weight * c[a] * c[b]
WeightedSecondMoment(a, b) ==
    SumRange([i \in 1 .. Q |->
                 RMul(WEIGHTS[i], RInt(VELOCITIES[i][a] * VELOCITIES[i][b]))],
             1, Q)

\* C17: the 27 values equilibrium_distribution(i, rho, u) sum to rho: for
\* every point new_equilibrium has built, and for the density and velocity
\* any point holds; the WEIGHTS sum to 1, their first moment is 0 and their
\* second moment is CS2 times the identity.
C17_EquilibriumSumsToDensity ==
    /\ \A n \in 1 .. Len(applied) :
          applied[n].op = "new_equilibrium" =>
              SumF(applied[n].point.f) = applied[n].point.density
    /\ SumF(Equilibrium(lattice_point.density, lattice_point.velocity))
          = lattice_point.density
    /\ SumF(WEIGHTS) = R1
    /\ FirstMoment(WEIGHTS) = Zero3
    /\ \A a, b \in 1 .. 3 :
          WeightedSecondMoment(a, b) = IF a = b THEN CS2 ELSE R0

\* new_equilibrium has built a moving point of density 3/2
C17_Witness ==
    /\ Len(applied) = 1
    /\ applied[1].op = "new_equilibrium"
    /\ lattice_point.density = Rat(3, 2)
    /\ lattice_point.velocity = RVec(<<1, -2, 3>>, 10)
    /\ lattice_point.f[20] # lattice_point.f[27]
    /\ SumF(lattice_point.f) = Rat(3, 2)

\* new_equilibrium built the point and only collide was applied since
OnlyCollidedSinceEquilibrium ==
    /\ applied # <<>>
    /\ applied[1].op = "new_equilibrium"
    /\ \A n \in 2 .. Len(applied) : applied[n].op = "collide"

\* C18: for every tau > 0, density and velocity, collide on a point built by
\* new_equilibrium leaves the 27 distributions (and the point) unchanged,
\* however many times it is applied.
C18_CollideFixedPoint ==
    OnlyCollidedSinceEquilibrium =>
        \A n \in 1 .. Len(applied) : applied[n].point = applied[1].point

\* a moving point was relaxed twice with tau = 3/5
C18_Witness ==
    /\ OnlyCollidedSinceEquilibrium
    /\ Len(applied) = 3
    /\ relax_tau = Rat(3, 5)
    /\ lattice_point.velocity = RVec(<<1, -2, 3>>, 10)
    /\ lattice_point.density = Rat(3, 2)
    /\ lattice_point.f[2] # lattice_point.f[3]

Divided(momentum, density) ==
    <<RDiv(momentum[1], density), RDiv(momentum[2], density),
      RDiv(momentum[3], density)>>

\* C20, as stated: calculate_macroscopic sets density to the sum of the 27
\* distributions and velocity to the first moment divided by that density,
\* and to the zero vector when the density is below 1e-10, whatever the
\* distributions.  Refuted by f[1] = 1, f[2] = -1 and 0 elsewhere: the
\* density is 0 and the velocity is left at the first moment (2, 0, 0).
C20_AsStated ==
    \A n \in 2 .. Len(applied) :
        applied[n].op = "calculate_macroscopic" =>
            LET before == applied[n - 1].point
                after == applied[n].point
            IN  /\ after.density = SumF(before.f)
                /\ after.velocity =
                      IF AboveEpsilon(after.density)
                      THEN Divided(FirstMoment(before.f), after.density)
                      ELSE Zero3

(* gpu.rs: one invocation of GPUContext::step on an uploaded grid, executed
   unit by unit.  A unit of work is one cell of one compute pass; the units
   of a pass run in any order, and a pass begins when the pass before it has
   finished (gpu.rs 367-404).  lattice_buffer is buffer A, temp_buffer is
   buffer B.  The bodies of the three passes are those of the StepPipeline
   description: Collision, Streaming, BoundaryEnforcement. *)

\* the velocity of the one cell of an uploaded grid that moves
MovingVelocity == RVec(<<1, 0, 0>>, 10)

\* a buffer as the device creates it: zeroed (gpu.rs 69-83)
ZeroPoint ==
    [f |-> ZeroF, density |-> R0, velocity |-> Zero3, node_type |-> 0]

\* what upload_lattice_data may put into a cell: a point at equilibrium, at
\* rest or moving, or a point whose only population moves along +x
UploadedPoints ==
    {new_equilibrium(R1, v, t) : v \in {Zero3, MovingVelocity},
                                 t \in NodeTypes}
        \cup {[DefaultPoint EXCEPT !.f = OneDirection(1, R1),
                                   !.node_type = t] : t \in NodeTypes}

AtRest(point) == point.f = Equilibrium(R1, Zero3)

\* the grids of n cells, at most one cell of which is not at rest
UploadedGrids(n) ==
    {grid \in [1 .. n -> UploadedPoints] :
        \A a, b \in 1 .. n : a # b => AtRest(grid[a]) \/ AtRest(grid[b])}

PipeDomains == {Domain(nx, 1, 1, <<1, 1, 1>>) : nx \in 1 .. PipeMaxNx}

InitPipeline ==
    /\ InitWith(PipeDomains, {<<>>}, GeomSims)
    /\ lattice_point = DefaultPoint
    /\ relax_tau = Rat(3, 5)
    /\ applied = <<>>
    /\ \E grid \in UploadedGrids(domain.nx * domain.ny * domain.nz) :
        /\ buffers = [lattice_buffer |-> grid,
                      temp_buffer |-> [n \in DOMAIN grid |-> ZeroPoint]]
        /\ trace = [start |-> grid, pre |-> grid, reads |-> {}, writes |-> {},
                    units |-> UnitCounts(grid)]
    /\ dispatch = [phase |-> "idle", done |-> {}]

Cells == 1 .. Len(buffers.lattice_buffer)

CellAt(n) == CellOrder(domain)[n]

Access(unit, buffer, cell) == [unit |-> unit, buffer |-> buffer, cell |-> cell]

\* the cell one lattice step in the direction -c_i from the cell c
Upstream(c, i) ==
    <<c[1] - VELOCITIES[i][1], c[2] - VELOCITIES[i][2],
      c[3] - VELOCITIES[i][3]>>

InGrid(c) == c \in Grid(domain)

\* gpu.rs 354-367: the encoder is created and the first pass begins
BeginStep ==
    /\ dispatch.phase = "idle"
    /\ dispatch' = [phase |-> "collision", done |-> {}]
    /\ trace' = [trace EXCEPT !.pre = buffers.lattice_buffer,
                              !.reads = {}, !.writes = {}]
    /\ UNCHANGED <<lattice_point, relax_tau, applied, buffers>>
    /\ UNCHANGED <<sim, pc, result>>
    /\ UNCHANGED geomVars
    /\ UNCHANGED runVars

NextPhase(phase) ==
    IF phase = "collision" THEN "streaming"
    ELSE IF phase = "streaming" THEN "boundary"
    ELSE "complete"

PassBegun(done, cells) == TRUE

\* a compute pass is complete when the unit of every cell has run
PassComplete(done, cells) == done = cells

\* gpu.rs 376-404: a pass ends when all its units have run, and the next
\* pass begins
PassBarrier ==
    /\ dispatch.phase \in {"collision", "streaming", "boundary"}
    /\ PassComplete(dispatch.done, Cells)
    /\ dispatch' = [phase |-> NextPhase(dispatch.phase), done |-> {}]
    /\ trace' = IF dispatch.phase = "boundary" THEN trace
                ELSE [trace EXCEPT !.pre = buffers.lattice_buffer,
                                   !.reads = {}, !.writes = {}]
    /\ UNCHANGED <<lattice_point, relax_tau, applied, buffers>>
    /\ UNCHANGED <<sim, pc, result>>
    /\ UNCHANGED geomVars
    /\ UNCHANGED runVars

\* Collision, for one cell: rho and u from A's distributions, the BGK
\* relaxation, the relaxed distributions written into B
CollisionUnit ==
    /\ dispatch.phase = "collision"
    /\ \E n \in Cells \ dispatch.done :
        /\ buffers' = [buffers EXCEPT !.temp_buffer[n] =
              collide(calculate_macroscopic(buffers.lattice_buffer[n]),
                      relax_tau)]
        /\ dispatch' = [dispatch EXCEPT !.done = @ \cup {n}]
        /\ trace' = [trace EXCEPT
              !.reads = @ \cup {Access(n, "lattice_buffer", n)},
              !.writes = @ \cup {Access(n, "temp_buffer", n)},
              !.units.collision[n] = @ + 1]
    /\ UNCHANGED <<lattice_point, relax_tau, applied>>
    /\ UNCHANGED <<sim, pc, result>>
    /\ UNCHANGED geomVars
    /\ UNCHANGED runVars

\* the directions whose upstream neighbour of cell n lies in the grid
Pulled(n) == {i \in 1 .. Q : InGrid(Upstream(CellAt(n), i))}

UpstreamIndex(n, i) == LinearIndex(Upstream(CellAt(n), i), domain) + 1

\* Streaming, for one destination cell: component i of A is the component i
\* of B at the upstream neighbour; a neighbour outside the grid is not read
\* and the component is left as it is
StreamingUnit ==
    /\ dispatch.phase = "streaming"
    /\ \E n \in Cells \ dispatch.done : \E pulled \in {Pulled(n)} :
        /\ buffers' = [buffers EXCEPT !.lattice_buffer[n].f =
              [i \in 1 .. Q |->
                  IF i \in pulled
                  THEN buffers.temp_buffer[UpstreamIndex(n, i)].f[i]
                  ELSE @[i]]]
        /\ dispatch' = [dispatch EXCEPT !.done = @ \cup {n}]
        /\ trace' = [trace EXCEPT
              !.reads = @ \cup {Access(n, "temp_buffer", UpstreamIndex(n, i)) :
                                   i \in pulled},
              !.writes = @ \cup {Access(n, "lattice_buffer", n)},
              !.units.streaming[n] = @ + 1]
    /\ UNCHANGED <<lattice_point, relax_tau, applied>>
    /\ UNCHANGED <<sim, pc, result>>
    /\ UNCHANGED geomVars
    /\ UNCHANGED runVars

\* bounce-back: component i becomes the component OPPOSITE[i]
BounceBack(f) == [i \in 1 .. Q |-> f[OPPOSITE[i] + 1]]

\* the cell an Outlet cell copies: its neighbour along -x, when it has one
InteriorNeighbour(n) ==
    IF CellAt(n)[1] > 0 THEN {n - 1} ELSE {}

\* the cells of A whose distributions the boundary unit of cell n reads
BoundaryReads(n, node_type) ==
    IF node_type = 0 THEN {}
    ELSE IF node_type = 3 THEN InteriorNeighbour(n)
    ELSE {n}

\* the distributions the boundary unit writes into cell n of A
BoundaryValue(A, n, inlet_velocity) ==
    IF A[n].node_type = 1 THEN BounceBack(A[n].f)
    ELSE IF A[n].node_type = 2
    THEN Equilibrium(SumF(A[n].f), inlet_velocity)
    ELSE IF A[n].node_type = 3 /\ InteriorNeighbour(n) # {}
    THEN A[n - 1].f
    ELSE A[n].f

\* BoundaryEnforcement, for one cell: A is rewritten in place, from what A
\* holds when the unit runs
BoundaryUnit ==
    /\ dispatch.phase = "boundary"
    /\ \E n \in Cells \ dispatch.done :
        /\ buffers' = [buffers EXCEPT !.lattice_buffer[n].f =
              BoundaryValue(buffers.lattice_buffer, n, sim.inlet_velocity)]
        /\ dispatch' = [dispatch EXCEPT !.done = @ \cup {n}]
        /\ trace' = [trace EXCEPT
              !.reads = @ \cup
                  {Access(n, "lattice_buffer", d) :
                      d \in BoundaryReads(n,
                                buffers.lattice_buffer[n].node_type)},
              !.writes = @ \cup
                  IF buffers.lattice_buffer[n].node_type = 0 THEN {}
                  ELSE {Access(n, "lattice_buffer", n)},
              !.units.boundary[n] = @ + 1]
    /\ UNCHANGED <<lattice_point, relax_tau, applied>>
    /\ UNCHANGED <<sim, pc, result>>
    /\ UNCHANGED geomVars
    /\ UNCHANGED runVars

NextPipeline ==
    BeginStep \/ CollisionUnit \/ StreamingUnit \/ BoundaryUnit
        \/ PassBarrier

SpecPipeline == InitPipeline /\ [][NextPipeline]_vars

A == buffers.lattice_buffer
B == buffers.temp_buffer

\* the cells whose unit of the pass in progress has run
Finished == IF dispatch.phase = "complete" THEN Cells ELSE dispatch.done

AccessesOf(accesses, buffer) == {a \in accesses : a.buffer = buffer}

\* C13, as stated: within each phase no unit reads a location that another
\* unit of the same phase writes; Collision reads only A and writes only B,
\* Streaming reads only B and writes only A, and BoundaryEnforcement uses
\* only values of A as they were before the phase began.  Refuted by a grid
\* of two cells, Inlet and Outlet: the Outlet unit reads the Inlet cell, which
\* the Inlet unit rewrites in the same phase.
C13_AsStated ==
    /\ \A r \in trace.reads, w \in trace.writes :
          r.buffer = w.buffer /\ r.cell = w.cell => r.unit = w.unit
    /\ dispatch.phase = "collision" =>
          /\ AccessesOf(trace.reads, "temp_buffer") = {}
          /\ AccessesOf(trace.writes, "lattice_buffer") = {}
    /\ dispatch.phase = "streaming" =>
          /\ AccessesOf(trace.reads, "lattice_buffer") = {}
          /\ AccessesOf(trace.writes, "temp_buffer") = {}
    /\ dispatch.phase \in {"boundary", "complete"} =>
          \A n \in Finished :
              A[n].f = BoundaryValue(trace.pre, n, sim.inlet_velocity)

NegatedMoment(m) == <<RNeg(m[1]), RNeg(m[2]), RNeg(m[3])>>

\* C16, as stated: after BoundaryEnforcement a Solid node's component i is
\* the value its component OPPOSITE[i] had before the phase, its first moment
\* is the negation of its first moment before the phase, and its density is
\* unchanged.  Refuted by a Solid node that holds the equilibrium of the
\* velocity (1/10, 0, 0): the populations of the edge directions 8, 10, 12
\* and 14 stay where they are and the x-moment is not negated.
C16_AsStated ==
    dispatch.phase \in {"boundary", "complete"} =>
        \A n \in Finished :
            A[n].node_type = 1 =>
                /\ \A i \in Directions :
                      A[n].f[i + 1] = trace.pre[n].f[OPPOSITE[i + 1] + 1]
                /\ FirstMoment(A[n].f)
                      = NegatedMoment(FirstMoment(trace.pre[n].f))
                /\ SumF(A[n].f) = SumF(trace.pre[n].f)

\* the density of each cell, summed over the Fluid cells of a grid
FluidMass(grid) ==
    SumRange([n \in 1 .. Len(grid) |->
                 IF grid[n].node_type = 0 THEN SumF(grid[n].f) ELSE R0],
             1, Len(grid))

\* the density of each cell, summed over all cells of a grid
TotalMass(grid) ==
    SumRange([n \in 1 .. Len(grid) |-> SumF(grid[n].f)], 1, Len(grid))

\* no cell of the uploaded grid is Inlet or Outlet
ClosedGrid == \A n \in Cells : trace.start[n].node_type \in {0, 1}

\* Collision and Streaming have run for every cell, BoundaryEnforcement for
\* none
Streamed == dispatch.phase = "boundary" /\ dispatch.done = {}

None == [some |-> FALSE, value |-> R0]
Some(v) == [some |-> TRUE, value |-> v]

\* f32::max of two numbers
FloatMax(a, b) == IF RLess(a, b) THEN b ELSE a

calculate_tau_first_component(config, dom) ==
    IF config.tau.some THEN config.tau.value
    ELSE LET characteristic_length == RInt(dom.dx)
             characteristic_velocity == config.inlet_velocity[1]
             viscosity ==
                 IF config.viscosity.some THEN config.viscosity.value
                 ELSE RDiv(RMul(characteristic_velocity,
                                characteristic_length),
                           config.reynolds_number)
             cs2 == RDiv(R1, RInt(3))
         IN  RAdd(RDiv(RMul(RInt(3), viscosity), cs2), Rat(1, 2))

\* config.rs 51-70; reynolds_number is not zero
calculate_tau(config, dom) ==
    IF config.tau.some THEN config.tau.value
    ELSE LET characteristic_length == RInt(dom.dx)
             characteristic_velocity ==
                 FloatMax(config.inlet_velocity[1],
                          FloatMax(config.inlet_velocity[2],
                                   config.inlet_velocity[3]))
             viscosity ==
                 IF config.viscosity.some THEN config.viscosity.value
                 ELSE RDiv(RMul(characteristic_velocity,
                                characteristic_length),
                           config.reynolds_number)
             cs2 == RDiv(R1, RInt(3))
         IN  RAdd(RDiv(RMul(RInt(3), viscosity), cs2), Rat(1, 2))

TauVelocities ==
    {RVec(<<1, 0, 0>>, 10), RVec(<<1, 2, 0>>, 10), RVec(<<0, -1, 3>>, 10),
     RVec(<<-1, -2, -3>>, 10)}

TauSims ==
    [max_iterations : {0},
     output_frequency : {1},
     convergence_tolerance : {Rat(3, 10)},
     inlet_velocity : TauVelocities,
     density : {R1},
     reynolds_number : {RInt(10), RInt(100)},
     viscosity : {None, Some(Rat(1, 10)), Some(Rat(1, 6))},
     tau : {None, Some(Rat(3, 5)), Some(R1)}]

InitTau ==
    /\ InitWith({Domain(1, 1, 1, d) : d \in Spacings}, {<<>>}, TauSims)
    /\ UnitsIdle

\* gpu.rs 88: tau: config.calculate_tau()
CalculateTau ==
    /\ applied = <<>>
    /\ relax_tau' = calculate_tau(sim, domain)
    /\ applied' = Applied("calculate_tau", lattice_point)
    /\ UNCHANGED <<lattice_point, buffers, dispatch, trace>>
    /\ UNCHANGED <<sim, pc, result>>
    /\ UNCHANGED geomVars
    /\ UNCHANGED runVars

NextTau == CalculateTau

SpecTau == InitTau /\ [][NextTau]_vars

TauCalculated == applied # <<>> /\ applied[1].op = "calculate_tau"

\* u is the largest of the three components of v
IsMaximum(u, v) ==
    /\ u \in {v[1], v[2], v[3]}
    /\ \A a \in 1 .. 3 : ~RLess(u, v[a])

\* nine times the viscosity, and a half
TauOfViscosity(nu) == RAdd(RMul(RInt(9), nu), Rat(1, 2))

\* C21: calculate_tau returns simulation.tau when it is given, whatever the
\* viscosity, the Reynolds number and the inlet velocity; otherwise
\* 3 * nu / cs2 + 0.5 with cs2 = 1/3, where nu is physics.viscosity when
\* given and otherwise U * dx / reynolds_number, U being the largest of the
\* three inlet-velocity components.
C21_TauPrecedence ==
    TauCalculated =>
        /\ sim.tau.some => relax_tau = sim.tau.value
        /\ ~sim.tau.some /\ sim.viscosity.some =>
              relax_tau = TauOfViscosity(sim.viscosity.value)
        /\ ~sim.tau.some /\ ~sim.viscosity.some =>
              \E a \in 1 .. 3 :
                  /\ IsMaximum(sim.inlet_velocity[a], sim.inlet_velocity)
                  /\ relax_tau =
                        TauOfViscosity(
                            RDiv(RMul(sim.inlet_velocity[a],
                                      RInt(domain.dx)),
                                 sim.reynolds_number))

\* tau was derived from the Reynolds number, with the largest component of
\* the inlet velocity not its first
C21_Witness ==
    /\ TauCalculated
    /\ ~sim.tau.some /\ ~sim.viscosity.some
    /\ sim.inlet_velocity = RVec(<<0, -1, 3>>, 10)
    /\ sim.reynolds_number = RInt(10)
    /\ domain.dx = 2
    /\ relax_tau = Rat(26, 25)

(* The whole chain on grids of more than one row: the order of the nodes in
   the lattice and in the snapshots. *)

LinearShapes == {<<2, 2, 1>>, <<2, 1, 2>>, <<1, 2, 2>>, <<3, 2, 1>>}

LinearDomains ==
    {Domain(s[1], s[2], s[3], <<1, 1, 1>>) : s \in LinearShapes}

InitLinear == InitWith(LinearDomains, RunMeshes, ConfigSims) /\ UnitsIdle

SpecLinear == InitLinear /\ [][Next]_vars

\* the node at linear index i + nx*j + nx*ny*k of a grid (indexed from 1)
NodeOfCell(nodes, c) ==
    nodes[c[1] + domain.nx * c[2] + domain.nx * domain.ny * c[3] + 1]

XFastest(nodes) ==
    /\ Len(nodes) = domain.nx * domain.ny * domain.nz
    /\ \A c \in Grid(domain) : NodeOfCell(nodes, c).node_type = NodeType(Geo, c)

RestGrids(n) ==
    [1 .. n -> {new_equilibrium(R1, Zero3, t) : t \in NodeTypes}]

InitSteps ==
    /\ InitWith(PipeDomains, {<<>>}, GeomSims)
    /\ lattice_point = DefaultPoint
    /\ relax_tau = Rat(3, 5)
    /\ applied = <<>>
    /\ \E grid \in RestGrids(domain.nx * domain.ny * domain.nz) :
        /\ buffers = [lattice_buffer |-> grid,
                      temp_buffer |-> [n \in DOMAIN grid |-> ZeroPoint]]
        /\ trace = [start |-> grid, pre |-> grid, reads |-> {}, writes |-> {},
                    units |-> UnitCounts(grid)]
    /\ dispatch = [phase |-> "idle", done |-> {}]

\* gpu.rs 411-416: the submission has finished and step returns Ok(())
StepReturn ==
    /\ dispatch.phase = "complete"
    /\ hist.step_calls + 1 < MaxSteps
    /\ dispatch' = [phase |-> "idle", done |-> {}]
    /\ hist' = [hist EXCEPT !.step_calls = @ + 1]
    /\ UNCHANGED <<lattice_point, relax_tau, applied, buffers, trace>>
    /\ UNCHANGED <<sim, pc, result>>
    /\ UNCHANGED geomVars
    /\ UNCHANGED <<lattice, iteration, converged, gpu, queue, staging,
                   collection_entries, manifest, caller>>

NextSteps == NextPipeline \/ StepReturn

SpecSteps == InitSteps /\ [][NextSteps]_vars

\* the units of a pass have each run `base` times, those of `done` once more
Ran(pass, base, done) ==
    \A n \in Cells :
        trace.units[pass][n] = base + (IF n \in done THEN 1 ELSE 0)

\* C23: in every invocation of the pipeline the passes run in the order
\* Collision, Streaming, BoundaryEnforcement, each exactly once per cell; no
\* unit of a pass runs before every unit of the pass before it has run, and
\* no unit of invocation n+1 runs before the boundary pass of invocation n
\* has finished.
C23_PhasesInOrder ==
    \E returned \in {hist.step_calls} :
        /\ dispatch.phase = "idle" =>
            /\ Ran("collision", returned, {})
            /\ Ran("streaming", returned, {})
            /\ Ran("boundary", returned, {})
        /\ dispatch.phase = "collision" =>
            /\ Ran("collision", returned, dispatch.done)
            /\ Ran("streaming", returned, {})
            /\ Ran("boundary", returned, {})
        /\ dispatch.phase = "streaming" =>
            /\ Ran("collision", returned, Cells)
            /\ Ran("streaming", returned, dispatch.done)
            /\ Ran("boundary", returned, {})
        /\ dispatch.phase = "boundary" =>
            /\ Ran("collision", returned, Cells)
            /\ Ran("streaming", returned, Cells)
            /\ Ran("boundary", returned, dispatch.done)
        /\ dispatch.phase = "complete" =>
            /\ Ran("collision", returned, Cells)
            /\ Ran("streaming", returned, Cells)
            /\ Ran("boundary", returned, Cells)

\* the second invocation has reached its boundary pass on a grid of two cells
C23_Witness ==
    /\ hist.step_calls = 1
    /\ dispatch.phase = "boundary"
    /\ Cardinality(Cells) = 2
    /\ Cardinality(dispatch.done) = 1

\* the relaxation of f towards the equilibrium of f's own moments
RelaxedAtMoments(before, tau) ==
    CHOOSE f \in
        {[i \in 1 .. Q |->
            RAdd(p.f[i],
                 RMul(omega,
                      RSub(equilibrium_distribution(i - 1, m.density,
                                                    m.velocity),
                           p.f[i])))] :
         p \in {before}, m \in {calculate_macroscopic(before)},
         omega \in {RDiv(R1, tau)}} : TRUE

\* C24, as stated: collide relaxes each distribution towards the equilibrium
\* at the density and velocity that are the moments of the node's current
\* distributions, also for a node whose stored density and velocity differ
\* from those moments.  Refuted by set_distributions followed by collide:
\* collide reads the stored fields, which set_distributions has left stale.
C24_AsStated ==
    /\ Len(applied) >= 2
    /\ applied[Len(applied)].op = "collide"
    => applied[Len(applied)].point.f
        = RelaxedAtMoments(applied[Len(applied) - 1].point, relax_tau)

\* the stored density and velocity of a point are the moments of its f:
\* calculate_macroscopic leaves the point as it is
MomentsStored(point) ==
    /\ SumF(point.f) = point.density
    /\ Divided(FirstMoment(point.f), point.density) = point.velocity
    /\ calculate_macroscopic(point) = point

\* C25: a node built by new_equilibrium(rho, u, type) with rho > 1e-10 holds
\* the moments of its distributions: their sum is its stored density, their
\* first moment divided by rho is its stored velocity, and
\* calculate_macroscopic applied to it returns the same density and velocity;
\* so does every node of the grid LBMSolver::new builds.
C25_EquilibriumHoldsMoments ==
    /\ \A n \in 1 .. Len(applied) :
          /\ applied[n].op = "new_equilibrium"
          /\ AboveEpsilon(applied[n].point.density)
          => /\ MomentsStored(applied[n].point)
             /\ n < Len(applied) /\ applied[n + 1].op = "calculate_macroscopic"
                => applied[n + 1].point = applied[n].point
    /\ \E nodes \in {InitialLattice(Geo, domain, sim.density,
                                    sim.inlet_velocity)} :
          \A n \in 1 .. Len(nodes) :
              AboveEpsilon(nodes[n].density) => MomentsStored(nodes[n])

\* calculate_macroscopic was applied to a moving point of density 1/2 that
\* new_equilibrium built
C25_Witness ==
    /\ Len(applied) = 2
    /\ applied[1].op = "new_equilibrium"
    /\ applied[1].point.density = Rat(1, 2)
    /\ applied[1].point.velocity = RVec(<<-1, 1, 0>>, 5)
    /\ applied[2].op = "calculate_macroscopic"
    /\ lattice_point.velocity = RVec(<<-1, 1, 0>>, 5)

\* solver.rs 51-69 under configurations of several densities and inlet
\* velocities
SeedSims ==
    {[g EXCEPT !.inlet_velocity = v, !.density = rho] :
        g \in GeomSims, v \in {InletVelocity, RVec(<<3, 2, 1>>, 10)},
        rho \in {R1, Rat(3, 2)}}

InitSeed == InitWith(GeomDomains, Meshes(Faces, MaxFaces), SeedSims)
                /\ UnitsIdle

SpecSeed == InitSeed /\ [][NextGeom]_vars

\* the velocity a node of each tag is seeded with
SeededAt(tag) ==
    IF tag = 2 THEN sim.inlet_velocity
    ELSE IF tag \in {1, 3} THEN Zero3
    ELSE <<RMul(Rat(1, 10), sim.inlet_velocity[1]), R0, R0>>

\* C26: the initial seeding depends only on a node's tag: an Inlet node (2)
\* is at equilibrium for the configured density and the full inlet velocity,
\* a Solid (1) and an Outlet (3) node for the configured density and zero
\* velocity, and a plain Fluid node (0) for the configured density and the
\* velocity (0.1 * inlet_velocity[0], 0, 0).
C26_SeededByTag ==
    pc = "ready" =>
        \A n \in 1 .. Len(lattice.nodes) :
            \E node \in {lattice.nodes[n]} :
                /\ node.density = sim.density
                /\ node.velocity = SeededAt(node.node_type)
                /\ node.f = Equilibrium(sim.density, SeededAt(node.node_type))

\* the grid that was built has a node of each of the four tags
C26_Witness ==
    /\ pc = "ready"
    /\ \A tag \in 0 .. 3 :
          \E n \in 1 .. Len(lattice.nodes) : lattice.nodes[n].node_type = tag
    /\ \E n \in 1 .. Len(lattice.nodes) :
          /\ lattice.nodes[n].node_type = 0
          /\ lattice.nodes[n].velocity = <<Rat(3, 100), R0, R0>>
    /\ sim.inlet_velocity[2] # R0
    /\ sim.density = Rat(3, 2)

(* geometry.rs 24-33, 95-176: meshes of two triangles, voxelized one after
   the other into the same solid_nodes and boundary_nodes *)

VoxelDomains == {Domain(nx, 1, 1, d) : nx \in 1 .. VoxelMaxNx, d \in Spacings}

VoxelTriangles == {PlateX(-1), PlateX(1), PlateX(3), SlantedFace}

InitVoxel == InitWith(VoxelDomains, Meshes(VoxelTriangles, VoxelFaces),
                      GeomSims)
                /\ UnitsIdle

SpecVoxel == InitVoxel /\ [][NextGeom]_vars

\* the samples of a cell within the thickness threshold of a triangle
NearSamples(c, triangle) ==
    {s \in Samples :
        point_inside_triangle_volume(SamplePoint(c, s, domain), triangle,
                                     domain)}

\* the cells in the clamped bounding-box range of a triangle of which at
\* least 14 of the 27 samples are within the threshold of that triangle
MajorityCells(triangle) ==
    {c \in Grid(domain) :
        /\ c \in BoundingCells(triangle, domain)
        /\ Cardinality(NearSamples(c, triangle)) >= 14}

\* C27: voxelizing one triangle marks a cell Solid exactly when the cell is in
\* the triangle's clamped bounding-box range and at least 14 of its 27
\* samples are within 0.8 * min(dx, dy, dz) of that triangle; the count is
\* per triangle, and a later triangle removes no cell from the Solid set.
C27_MajorityPerTriangle ==
    [][face' = face + 1 =>
          /\ solid_nodes' = solid_nodes \cup MajorityCells(mesh[face + 1])
          /\ solid_nodes \subseteq solid_nodes']_vars

\* two triangles were voxelized, each near 9 samples of a cell in its range,
\* together near 18 samples of it, and the cell is not Solid
C27_Witness ==
    /\ face = 2
    /\ pc = "from_stl"
    /\ \E c \in Grid(domain) :
          /\ c \notin solid_nodes
          /\ Cardinality(NearSamples(c, mesh[1])) = 9
          /\ Cardinality(NearSamples(c, mesh[2])) = 9
          /\ Cardinality(NearSamples(c, mesh[1]) \cup NearSamples(c, mesh[2]))
                >= 14
          /\ c \in BoundingCells(mesh[1], domain)
          /\ c \in BoundingCells(mesh[2], domain)

\* the barycentric denominator dot00 * dot11 - dot01 * dot01 of a triangle
Denominator(triangle) ==
    LET v0 == Sub(triangle[2], triangle[1])
        v1 == Sub(triangle[3], triangle[1])
    IN  Dot(v0, v0) * Dot(v1, v1) - Dot(v0, v1) * Dot(v0, v1)

\* C28, as stated: a triangle of zero area (three equal or collinear
\* vertices, barycentric denominator 0) is skipped: voxelizing it adds no
\* cell to solid_nodes and no cell to boundary_nodes.  Refuted by three
\* collinear vertices on a line through the grid, whose cells are marked.
C28_AsStated ==
    [][face' = face + 1 /\ Denominator(mesh[face + 1]) = 0 =>
          /\ solid_nodes' = solid_nodes
          /\ boundary_nodes' = boundary_nodes]_vars

\* the bounce-back permutation applied to the distributions of a node:
\* component i becomes the component OPPOSITE[i]
Reflected(f) == [i \in 1 .. Q |-> f[OPPOSITE[i] + 1]]

\* C29: OPPOSITE is a permutation of 0 .. 26 and an involution, and
\* WEIGHTS[OPPOSITE[i]] = WEIGHTS[i]; so applying the bounce-back permutation
\* to a node twice restores its distributions, and applying it once keeps
\* the node's density, the sum of its distributions.
C29_OppositeInvolution ==
    /\ {OPPOSITE[i + 1] : i \in Directions} = Directions
    /\ \A i \in Directions :
          /\ OPPOSITE[OPPOSITE[i + 1] + 1] = i
          /\ WEIGHTS[OPPOSITE[i + 1] + 1] = WEIGHTS[i + 1]
    /\ \E f \in {lattice_point.f} :
          /\ Reflected(Reflected(f)) = f
          /\ SumF(Reflected(f)) = SumF(f)

\* a moving point at equilibrium, which one reflection changes
C29_Witness ==
    /\ Len(applied) = 1
    /\ applied[1].op = "new_equilibrium"
    /\ lattice_point.velocity = RVec(<<1, -2, 3>>, 10)
    /\ Reflected(lattice_point.f) # lattice_point.f
    /\ Reflected(Reflected(lattice_point.f)) = lattice_point.f

\* C30: for extents nx, ny, nz >= 1 and triangles with any vertex
\* coordinates, every cell inserted into solid_nodes, boundary_nodes,
\* fluid_nodes, inlet_nodes or outlet_nodes has 0 <= i < nx, 0 <= j < ny and
\* 0 <= k < nz.
C30_CellsWithinGrid ==
    domain.nx >= 1 /\ domain.ny >= 1 /\ domain.nz >= 1 =>
        \A c \in solid_nodes \cup boundary_nodes \cup fluid_nodes
                    \cup inlet_nodes \cup outlet_nodes :
            /\ 0 <= c[1] /\ c[1] < domain.nx
            /\ 0 <= c[2] /\ c[2] < domain.ny
            /\ 0 <= c[3] /\ c[3] < domain.nz

\* a triangle with vertices outside the domain, at negative coordinates and
\* beyond the last cell, was voxelized: it marked a cell at the edge of the
\* grid, and neighbours of that cell became boundary candidates
C30_Witness ==
    /\ face = 1
    /\ \E v \in 1 .. 3, a \in 1 .. 3 :
          mesh[1][v][a] < 0 \/ mesh[1][v][a] > 3 * domain.dx
    /\ \E c \in solid_nodes : c[2] = 0 /\ c[3] = domain.nz - 1
    /\ boundary_nodes # {}

====
